---- MODULE Spec2Model ----
(***************************************************************************)
(* A model of the ledger-backed feed of stonkystonkster.sol: the gateway   *)
(* pool (pickConn / backoff / penalize), the confirmation poller, the      *)
(* write pipeline, the memo codec, the feed paginator, the like tally and  *)
(* the registry resolver.  Times are milliseconds, as in the source.       *)
(***************************************************************************)
EXTENDS Integers, Sequences, FiniteSets, TLC

\* ------------------------------------------------------------------------
\* Bounds of the model
\* ------------------------------------------------------------------------
NumEps == 2
MaxPublishes == 1
MaxResolves == 1
MaxFaults == 2
MaxIdles == 1
MaxHist == 2
StartMs == 100000
FastMs == 100
SignMs == 2000
IdleMs == 4000

\* ------------------------------------------------------------------------
\* Program constants of the write-side pool (src/components/registry.ts)
\* ------------------------------------------------------------------------
PROBE_TIMEOUT_MS == 3500
PROBE_COOLDOWN_STEP == 3000
PROBE_COOLDOWN_CAP == 30000
BACKOFF_COOLDOWN_CAP == 60000
JITTER_MAX == 149
CONFIRM_ATTEMPTS == 6
DISCOVER_CONFIRM_ATTEMPTS == 4
CONFIRM_TRIED_SLEEP == 350
CONFIRM_PENDING_SLEEP == 800
CONFIRM_ERROR_SLEEP == 600
STATUS_TIMEOUT_MS == 3500
MIN_CALL_SPACING == 250
SCAN_LIMIT == 100
TX_TIMEOUT_MS == 6500
MAX_REGISTRIES == 4
REGISTRY_TTL_MS == 60000
BUCKET_MS == 1800000

VARIABLES
  now,        \* Date.now()
  pool,       \* registry.ts pool: endpoint -> [cooldownUntil, failScore]
  CACHED_URL, \* the cached current endpoint (CACHED_CONN goes with it), 0 = null
  lastCall,   \* rateLimitPause's lastCall
  pk,         \* the pickConn call in progress
  pub,        \* the publishMemeApi call in progress
  cf,         \* the confirmSignatureSmart call in progress
  rs,         \* the getActiveRegistries call in progress
  reg,        \* __activeRegistries and __registryLoadedAt
  hist,       \* the owner account's history on the ledger, newest first
  cfg,        \* configuration values read once at load
  env,        \* counters that bound the environment
  ledger,     \* the registry account's history on the ledger, newest first
  spool,      \* part_002 pool: endpoint -> [cooldownUntil, fail]
  lastCallAt, \* part_002 rateLimitPause's lastCallAt
  charged,    \* per endpoint, the cooldowns of its last two consecutive failures
  srv,        \* the part_002 handler invocation in progress
  client,     \* the feed client paging through part_002's handler
  legacy,     \* the feed client paging through fetchMemes.ts's handler
  fenv,       \* counters that bound the feed's environment
  codec,      \* the codec call in progress
  tally,      \* the tally computation in progress
  race,       \* overlapping pickConn() calls on registry.ts's pool
  fo,         \* solana.ts: rpcIndex, pauseUntil and the withFailover call in progress
  disc,       \* discover.ts: loadMore's lastSig and what its pages considered
  sel         \* the writers that called selectRegistryForWrite() and what they got

writeSide == <<pool, CACHED_URL, lastCall, pk, pub, cf, rs, reg, hist, cfg, env>>
feedSide == <<ledger, spool, lastCallAt, charged, srv, client, legacy, fenv>>
readSide == <<feedSide, codec, tally>>
otherSide == <<race, fo, disc, sel>>
vars == <<now, writeSide, readSide, otherSide>>

NoEp == 0

\* the messages of the two errors the gateway layer produces: pickConn's
\* own error, and the gateway's HTTP 429 as web3.js reports it
NoEndpoint == "No CORS-friendly RPC available"
RateLimited == "429 Too many requests"

Min(a, b) == IF a < b THEN a ELSE b

\* jitter(ms) = ms + floor(random * 150): the two ends of its range
Jitters == {0, JITTER_MAX}
jitter(ms, j) == ms + j

\* ------------------------------------------------------------------------
\* pickConn (registry.ts)
\* ------------------------------------------------------------------------
\* [...pool].sort((a, b) => (a.cooldownUntil - b.cooldownUntil) || (a.failScore - b.failScore));
\* Array.prototype.sort is stable, so pool order breaks the remaining ties.
Before(p, a, b) ==
  \/ p[a].cooldownUntil < p[b].cooldownUntil
  \/ p[a].cooldownUntil = p[b].cooldownUntil /\ p[a].failScore < p[b].failScore
  \/ p[a].cooldownUntil = p[b].cooldownUntil /\ p[a].failScore = p[b].failScore /\ a < b

SortPool(p) ==
  [i \in DOMAIN p |->
     CHOOSE e \in DOMAIN p : Cardinality({f \in DOMAIN p : Before(p, f, e)}) = i - 1]

\* a loop without "if (ep.cooldownUntil > now) continue": the next index of
\* `order` at or after `from`, cooling down or not
NextCandidateAny(p, order, from, t) == IF from <= Len(order) THEN from ELSE 0

\* the next index of `order` at or after `from` whose endpoint is not cooling
\* down at `t` ("if (ep.cooldownUntil > now) continue"), 0 when there is none
NextCandidate(p, order, from, t) ==
  LET ok == {i \in from..Len(order) : p[order[i]].cooldownUntil <= t}
  IN IF ok = {} THEN 0 ELSE CHOOSE i \in ok : \A k \in ok : i <= k

\* cooldown of a failed probe: Math.min(30_000, 3_000 * ep.failScore)
ProbeCooldown(failScore) == Min(PROBE_COOLDOWN_CAP, PROBE_COOLDOWN_STEP * failScore)

\* a gateway answer that is a failure; the environment hands out at most
\* MaxFaults of them in one run
Fault(o) == o.res \in {"rate", "auth", "timeout", "error"}
Allowed(o) == Fault(o) => env.faults < MaxFaults
Charge(o) == [env EXCEPT !.faults = @ + (IF Fault(o) THEN 1 ELSE 0)]

\* what a gateway may answer to the probe (getLatestBlockhash under withTimeout)
ProbeOutcomes ==
  { [res |-> "ok",      d |-> FastMs],
    [res |-> "rate",    d |-> FastMs],
    [res |-> "timeout", d |-> PROBE_TIMEOUT_MS] }

PkIdle == [pc |-> "idle", caller |-> "none", now0 |-> 0, order |-> <<>>, idx |-> 0,
           res |-> NoEp, probed |-> FALSE, failed |-> {}, onlyRate |-> TRUE]

\* the synchronous head of pickConn, entered at time t with pool p and cache
\* c: cache check, sort, first candidate
PickAt(caller, p, c, t) ==
  IF c # NoEp /\ p[c].cooldownUntil <= t
  THEN [PkIdle EXCEPT !.pc = "ret", !.caller = caller, !.now0 = t, !.res = c]
  ELSE LET order == SortPool(p)
           i == NextCandidate(p, order, 1, t)
       IN [PkIdle EXCEPT !.pc = IF i = 0 THEN "thrown" ELSE "probing",
                         !.caller = caller, !.now0 = t,
                         !.order = order, !.idx = i]

\* the catch block of the probe: the pool after the probe of ep failed with
\* an error of class `res` in a pickConn() entered at now0.  The error is
\* logged (discover.ts also shows a toast for a 401 from Helius) and has no
\* part in the penalty
ProbeFailed(p, ep, now0, res) ==
  [p EXCEPT ![ep] = [failScore |-> p[ep].failScore + 1,
                     cooldownUntil |-> now0 + ProbeCooldown(p[ep].failScore + 1)]]

\* the classes of a failed probe
ProbeFailures == {"auth", "rate", "timeout"}

\* one probe of pickConn's loop answers
Probe ==
  /\ pk.pc = "probing"
  /\ \E o \in ProbeOutcomes :
       LET ep == pk.order[pk.idx] IN
       /\ Allowed(o)
       /\ env' = Charge(o)
       /\ now' = now + o.d
       /\ IF o.res = "ok"
          THEN /\ CACHED_URL' = ep
               /\ pool' = pool
               /\ pk' = [pk EXCEPT !.pc = "ret", !.res = ep, !.probed = TRUE,
                                   !.onlyRate = FALSE]
          ELSE LET p2 == ProbeFailed(pool, ep, pk.now0, o.res)
                   i == NextCandidate(p2, pk.order, pk.idx + 1, pk.now0)
               IN /\ pool' = p2
                  /\ CACHED_URL' = CACHED_URL
                  /\ pk' = [pk EXCEPT !.pc = IF i = 0 THEN "thrown" ELSE "probing",
                                      !.idx = i,
                                      !.failed = @ \cup {ep},
                                      !.onlyRate = @ /\ o.res = "rate"]
  /\ UNCHANGED <<lastCall, pub, cf, rs, reg, hist, cfg, readSide, otherSide>>

\* ------------------------------------------------------------------------
\* backoff (registry.ts)
\* ------------------------------------------------------------------------
\* [500, 1000, 2000, 4000, 6000][Math.min(attempt, 4)]
BackoffTable == <<500, 1000, 2000, 4000, 6000>>
BackoffBase(attempt) == BackoffTable[Min(attempt, 4) + 1]

\* a backoff whose cooldown grows with the wait and is not capped
BackoffUncapped(attempt) == BackoffBase(attempt) * 30

\* the cooldown backoff() applies: Math.min(60_000, base * 3)
BackoffCooldown(attempt) == Min(BACKOFF_COOLDOWN_CAP, BackoffBase(attempt) * 3)

\* the pool after backoff(ep, attempt) at time t; ep = NoEp is backoff(undefined)
backoff(p, ep, attempt, t) ==
  IF ep = NoEp THEN p
  ELSE [p EXCEPT ![ep] = [failScore |-> p[ep].failScore + 1,
                          cooldownUntil |-> t + BackoffCooldown(attempt)]]
\* ------------------------------------------------------------------------
\* confirmSignatureSmart (registry.ts, and the copy in discover.ts)
\* ------------------------------------------------------------------------
CfIdle == [pc |-> "idle", variant |-> "registry", attempts |-> 0, tried |-> {},
           queries |-> 0, answers |-> 0, onlyRate |-> TRUE]

\* a loop that admits one attempt more than "attempts++ < 6"
ConfirmAttemptsOneMore(variant) == CONFIRM_ATTEMPTS + 1

\* "while (attempts++ < 6)" in registry.ts, "while (attempts++ < 4)" in discover.ts
ConfirmAttempts(variant) ==
  IF variant = "registry" THEN CONFIRM_ATTEMPTS ELSE DISCOVER_CONFIRM_ATTEMPTS

\* which rejections take the backoff-and-rotate branch:
\* is429(e) in registry.ts, is429(e) || is401_403(e) in discover.ts
RotatesOn(variant, res) ==
  \/ res = "rate"
  \/ res = "auth" /\ variant = "discover"

StatusOutcomes ==
  { [res |-> "confirmed", d |-> FastMs],
    [res |-> "pending",   d |-> FastMs],
    [res |-> "rate",      d |-> FastMs],
    [res |-> "auth",      d |-> FastMs],
    [res |-> "timeout",   d |-> STATUS_TIMEOUT_MS] }

\* the loop head at time t: either the loop ends and the poller returns
\* normally, or the next attempt starts with pickConn()
ConfirmLoop(c, p, cache, t) ==
  IF c.attempts >= ConfirmAttempts(c.variant)
  THEN /\ cf' = [c EXCEPT !.pc = "exhausted", !.attempts = @ + 1]
       /\ pk' = PkIdle
  ELSE /\ cf' = [c EXCEPT !.pc = "pick", !.attempts = @ + 1]
       /\ pk' = PickAt("confirm", p, cache, t)

\* what pickConn() saw, added to the poller's record of the gateways' answers
Seen(c) ==
  [c EXCEPT !.answers = @ + Cardinality(pk.failed) + (IF pk.probed THEN 1 ELSE 0),
            !.onlyRate = @ /\ pk.onlyRate]

\* pickConn() threw inside the poller: the call is outside the try block
ConfirmPickThrown ==
  /\ cf.pc = "pick" /\ pk.pc = "thrown" /\ pk.caller = "confirm"
  /\ cf' = [Seen(cf) EXCEPT !.pc = "thrown"]
  /\ pk' = PkIdle
  /\ UNCHANGED <<now, pool, CACHED_URL, lastCall, pub, rs, reg, hist, cfg, env, readSide, otherSide>>

\* the endpoint was already tried: sleep 350 * attempts and continue
ConfirmTried ==
  /\ cf.pc = "pick" /\ pk.pc = "ret" /\ pk.caller = "confirm"
  /\ pk.res \in cf.tried
  /\ now' = now + CONFIRM_TRIED_SLEEP * cf.attempts
  /\ ConfirmLoop(Seen(cf), pool, CACHED_URL, now')
  /\ UNCHANGED <<pool, CACHED_URL, lastCall, pub, rs, reg, hist, cfg, env, readSide, otherSide>>

\* a new endpoint: query the signature status and act on the answer
ConfirmQuery ==
  /\ cf.pc = "pick" /\ pk.pc = "ret" /\ pk.caller = "confirm"
  /\ pk.res \notin cf.tried
  /\ \E o \in StatusOutcomes, j \in Jitters :
       LET ep == pk.res
           c == [Seen(cf) EXCEPT !.tried = @ \cup {ep},
                                 !.queries = @ + 1,
                                 !.answers = @ + 1,
                                 !.onlyRate = @ /\ o.res = "rate"]
           t == now + o.d
       IN /\ Allowed(o)
          /\ env' = Charge(o)
          /\ CASE o.res = "confirmed" ->
                    /\ cf' = [c EXCEPT !.pc = "confirmed"]
                    /\ pk' = PkIdle
                    /\ now' = t
                    /\ UNCHANGED <<pool, CACHED_URL>>
               [] RotatesOn(cf.variant, o.res) ->
                    \* backoff(pp, attempts), sleep its wait, then force rotate
                    /\ pool' = backoff(pool, ep, cf.attempts, t)
                    /\ now' = t + jitter(BackoffBase(cf.attempts), j)
                    /\ CACHED_URL' = NoEp
                    /\ ConfirmLoop(c, pool', NoEp, now')
               [] o.res = "pending" ->
                    /\ now' = t + jitter(CONFIRM_PENDING_SLEEP, j)
                    /\ UNCHANGED <<pool, CACHED_URL>>
                    /\ ConfirmLoop(c, pool, CACHED_URL, now')
               [] OTHER ->
                    /\ now' = t + jitter(CONFIRM_ERROR_SLEEP, j)
                    /\ UNCHANGED <<pool, CACHED_URL>>
                    /\ ConfirmLoop(c, pool, CACHED_URL, now')
  /\ UNCHANGED <<lastCall, pub, rs, reg, hist, cfg, readSide, otherSide>>

\* ------------------------------------------------------------------------
\* rateLimitPause (registry.ts)
\* ------------------------------------------------------------------------
\* the time at which rateLimitPause() entered at t resolves; lastCall is set
\* to that time
PauseEnd(t, lc) == IF t - lc < MIN_CALL_SPACING THEN lc + MIN_CALL_SPACING ELSE t

\* ------------------------------------------------------------------------
\* loadLatestRegistryManifest / getActiveRegistries (registry.ts)
\* ------------------------------------------------------------------------
MANIFEST_TAG == "registry.v1"
\* OWNER_PK, the account whose history is scanned
OWNER_PK == "OWNER"
\* envVal ? new PublicKey(envVal) : OWNER_PK, with envVal the configured
\* PUBLISH_REGISTRY
REGISTRY_FALLBACK == IF cfg.PUBLISH_REGISTRY # "" THEN cfg.PUBLISH_REGISTRY ELSE OWNER_PK

\* strings that new PublicKey() accepts
Addresses == {"A", "B", "C", "D", "E", "R", "OWNER"}

NoManifest == [found |-> FALSE, ts |-> 0, registries |-> <<>>]

\* a scan in which a manifest of equal timestamp replaces the one held
ReplacesOnTie(ts, latest) == ~latest.found \/ ts >= latest.ts

\* if (!latest || ts > latest.ts) latest = { ts, m: obj }
Replaces(ts, latest) == ~latest.found \/ ts > latest.ts

\* the scan of the fetched transactions, in list order: txs[i] is list[i]
\* when fetched[i], and null otherwise
RECURSIVE ScanLatest(_, _, _, _)
ScanLatest(list, fetched, i, latest) ==
  IF i > Len(list) THEN latest
  ELSE LET tx == list[i]
           skip == \/ ~fetched[i]
                   \/ ~tx.parses
                   \/ tx.tag # MANIFEST_TAG
                   \/ ~tx.isArr
                   \/ Len(tx.registries) = 0
           ts == tx.blockTime
       IN IF ~skip /\ Replaces(ts, latest)
          THEN ScanLatest(list, fetched, i + 1,
                          [found |-> TRUE, ts |-> ts, registries |-> tx.registries])
          ELSE ScanLatest(list, fetched, i + 1, latest)

IsAddress(r) == r \in Addresses

\* a tail of getActiveRegistries without the fallback
ActiveListNoFallback(manifest) ==
  LET valid == IF manifest.found THEN SelectSeq(manifest.registries, IsAddress) ELSE <<>>
  IN SubSeq(valid, 1, Min(MAX_REGISTRIES, Len(valid)))

\* the tail of getActiveRegistries: keep what new PublicKey() accepts, fall
\* back when nothing is left, slice(0, MAX_REGISTRIES)
ActiveList(manifest) ==
  LET valid == IF manifest.found THEN SelectSeq(manifest.registries, IsAddress) ELSE <<>>
      list == IF Len(valid) = 0 THEN <<REGISTRY_FALLBACK>> ELSE valid
  IN SubSeq(list, 1, Min(MAX_REGISTRIES, Len(list)))

\* sigs.map(s => s.signature) of getSignaturesForAddress(OWNER_PK, {limit: 100})
SigList == SubSeq(hist, 1, Min(SCAN_LIMIT, Len(hist)))

RsIdle == [pc |-> "idle", caller |-> "none", i |-> 0, tries |-> 0, out |-> <<>>,
           res |-> <<>>, err |-> ""]

NoRegistries == [loaded |-> FALSE, active |-> <<>>, loadedAt |-> 0, scanned |-> <<>>]

\* one round of the fetch loop starts at time t: rateLimitPause(), then the
\* head of pickConn()
TxStart(r, p, c, lc, t) ==
  LET t1 == PauseEnd(t, lc) IN
  /\ rs' = [r EXCEPT !.pc = "tx"]
  /\ pk' = PickAt("txfetch", p, c, t1)
  /\ lastCall' = t1
  /\ now' = t1
  /\ reg' = reg

\* out.push(...) happened for list[r.i] at time t: the next transaction, or
\* the scan and the tail of getActiveRegistries
Advance(r, p, c, lc, t) ==
  IF r.i < Len(SigList)
  THEN TxStart([r EXCEPT !.i = @ + 1, !.tries = 0], p, c, lc, t)
  ELSE LET list == ActiveList(ScanLatest(SigList, r.out, 1, NoManifest)) IN
       /\ rs' = [r EXCEPT !.pc = "ret", !.res = list]
       /\ reg' = [loaded |-> TRUE, active |-> list, loadedAt |-> t, scanned |-> r.out]
       /\ pk' = PkIdle
       /\ lastCall' = lc
       /\ now' = t

\* the synchronous head of getActiveRegistries at time t
ResolveAt(caller, p, c, t) ==
  IF reg.loaded /\ t - reg.loadedAt < REGISTRY_TTL_MS
  THEN /\ rs' = [RsIdle EXCEPT !.pc = "ret", !.caller = caller, !.res = reg.active]
       /\ pk' = PkIdle
  ELSE /\ rs' = [RsIdle EXCEPT !.pc = "pick", !.caller = caller]
       /\ pk' = PickAt("manifest", p, c, t)

\* loadLatestRegistryManifest's first pickConn() threw: nothing catches it
ManifestPickThrown ==
  /\ rs.pc = "pick" /\ pk.pc = "thrown" /\ pk.caller = "manifest"
  /\ rs' = [rs EXCEPT !.pc = "thrown", !.err = NoEndpoint]
  /\ pk' = PkIdle
  /\ UNCHANGED <<now, pool, CACHED_URL, lastCall, pub, cf, reg, hist, cfg, env, readSide, otherSide>>

SigsOutcomes ==
  { [res |-> "ok",   d |-> FastMs],
    [res |-> "rate", d |-> FastMs] }

\* rateLimitPause(), then getSignaturesForAddress(OWNER_PK): a rejection is
\* not caught; an answer starts the fetch loop
ManifestSigs ==
  /\ rs.pc = "pick" /\ pk.pc = "ret" /\ pk.caller = "manifest"
  /\ \E o \in SigsOutcomes :
       LET t1 == PauseEnd(now, lastCall)
           t2 == t1 + o.d
       IN /\ Allowed(o)
          /\ env' = Charge(o)
          /\ IF o.res = "ok"
             THEN IF Len(SigList) = 0
                  THEN Advance(rs, pool, CACHED_URL, t1, t2)
                  ELSE TxStart([rs EXCEPT !.i = 1, !.tries = 0], pool, CACHED_URL, t1, t2)
             ELSE /\ rs' = [rs EXCEPT !.pc = "thrown", !.err = RateLimited]
                  /\ pk' = PkIdle
                  /\ lastCall' = t1
                  /\ now' = t2
                  /\ reg' = reg
  /\ UNCHANGED <<pool, CACHED_URL, pub, cf, hist, cfg, readSide, otherSide>>

\* pickConn() threw inside the fetch loop's try: not a 429, so out.push(null)
TxPickThrown ==
  /\ rs.pc = "tx" /\ pk.pc = "thrown" /\ pk.caller = "txfetch"
  /\ Advance([rs EXCEPT !.out = Append(@, FALSE)], pool, CACHED_URL, lastCall, now)
  /\ UNCHANGED <<pool, CACHED_URL, pub, cf, hist, cfg, env, readSide, otherSide>>

TxOutcomes ==
  { [res |-> "ok",      d |-> FastMs],
    [res |-> "rate",    d |-> FastMs],
    [res |-> "timeout", d |-> TX_TIMEOUT_MS] }

\* getParsedTransaction(sig) under withTimeout(6500) answers
TxFetch ==
  /\ rs.pc = "tx" /\ pk.pc = "ret" /\ pk.caller = "txfetch"
  /\ \E o \in TxOutcomes, j \in Jitters :
       LET t == now + o.d IN
       /\ Allowed(o)
       /\ env' = Charge(o)
       /\ CASE o.res = "ok" ->
                 /\ Advance([rs EXCEPT !.out = Append(@, TRUE)], pool, CACHED_URL, lastCall, t)
                 /\ UNCHANGED <<pool, CACHED_URL>>
            [] o.res = "rate" ->
                 \* backoff(pool.find(CACHED_URL), tries++), sleep, then the
                 \* two thresholds on tries
                 LET tries == rs.tries + 1
                     t2 == t + jitter(BackoffBase(rs.tries), j)
                     c2 == IF tries > 2 THEN NoEp ELSE CACHED_URL
                 IN /\ pool' = backoff(pool, CACHED_URL, rs.tries, t)
                    /\ CACHED_URL' = c2
                    /\ IF tries > 3
                       THEN Advance([rs EXCEPT !.out = Append(@, FALSE), !.tries = tries],
                                    pool', c2, lastCall, t2)
                       ELSE TxStart([rs EXCEPT !.tries = tries], pool', c2, lastCall, t2)
            [] OTHER ->
                 /\ Advance([rs EXCEPT !.out = Append(@, FALSE)], pool, CACHED_URL, lastCall, t)
                 /\ UNCHANGED <<pool, CACHED_URL>>
  /\ UNCHANGED <<pub, cf, hist, cfg, readSide, otherSide>>

\* a caller other than the write path asks for the active registries
ResolveStart ==
  /\ rs.pc = "idle" /\ pub.pc = "idle"
  /\ env.resolves < MaxResolves
  /\ ResolveAt("direct", pool, CACHED_URL, now)
  /\ env' = [env EXCEPT !.resolves = @ + 1]
  /\ UNCHANGED <<now, pool, CACHED_URL, lastCall, pub, cf, reg, hist, cfg, readSide, otherSide>>

\* discover.ts's getActiveRegistries with an explicit registry configured:
\* if (REGISTRY_FALLBACK && REGISTRY_FALLBACK.toBase58() !== OWNER_PK.toBase58())
ExplicitRegistry == REGISTRY_FALLBACK # OWNER_PK

\* ... it answers [REGISTRY_FALLBACK] at once.  The list it stores is
\* discover.ts's own module variable, which is read only on the path without
\* an explicit registry; registry.ts's cache (reg) is a different variable
\* and is left alone.
ResolveExplicit ==
  /\ rs.pc = "idle" /\ pub.pc = "idle"
  /\ env.resolves < MaxResolves
  /\ ExplicitRegistry
  /\ rs' = [RsIdle EXCEPT !.pc = "ret", !.caller = "direct", !.res = <<REGISTRY_FALLBACK>>]
  /\ env' = [env EXCEPT !.resolves = @ + 1]
  /\ UNCHANGED <<now, pool, CACHED_URL, lastCall, pk, pub, cf, reg, hist, cfg, readSide, otherSide>>

ResolveEnd ==
  /\ rs.pc \in {"ret", "thrown"} /\ rs.caller = "direct"
  /\ rs' = [RsIdle EXCEPT !.res = rs.res]
  /\ UNCHANGED <<now, pool, CACHED_URL, lastCall, pk, pub, cf, reg, hist, cfg, env, readSide, otherSide>>

\* ------------------------------------------------------------------------
\* selectRegistryForWrite (registry.ts)
\* ------------------------------------------------------------------------
\* a selection that ignores the time of day
selectFirstRegistry(regs, t) == regs[1]

selectRegistryForWrite(regs, t) ==
  IF Len(regs) = 1 \/ ~cfg.WRITE_SHARDING THEN regs[1]
  ELSE regs[((t \div BUCKET_MS) % Len(regs)) + 1]

\* ------------------------------------------------------------------------
\* publishMemeApi (registry.ts, and the older copy in discover.ts)
\* ------------------------------------------------------------------------
Variants == {"registry", "discover"}

\* window.solana: absent, present without a publicKey (not connected), with
\* signAndSendTransaction / sendTransaction, or with signTransaction only
\* (the raw transaction then goes through conn)
Providers == {"none", "noKey", "signAndSend", "signOnly"}

\* discover.ts anchors under the one configured REGISTRY_PK
REGISTRY_PK == "OWNER"

\* the two writers: publishMemeApi and publishLike.  publishLike exists in
\* registry.ts and in the newer half of discover.ts; both resolve the
\* registry through selectRegistryForWrite()
Ops == {"meme", "like"}

PubIdle == [pc |-> "idle", op |-> "meme", variant |-> "registry", provider |-> "none",
            reg |-> "", signer |-> "", sig |-> "", err |-> "", toast |-> ""]

\* a writer that goes on without a wallet
SignerNotChecked(pr) == TRUE

\* const provider = window.solana; if (!provider?.publicKey) throw ...
HasSigner(pr) == pr \notin {"none", "noKey"}

PublishStart ==
  /\ pub.pc = "idle" /\ rs.pc = "idle"
  /\ env.publishes < MaxPublishes
  /\ \E op \in Ops, v \in Variants, pr \in Providers :
       /\ op = "like" => v = "registry"
       /\ IF ~HasSigner(pr)
          THEN /\ pub' = [PubIdle EXCEPT !.pc = "rejected", !.op = op, !.variant = v,
                                         !.provider = pr,
                                         !.err = "Connect wallet first"]
               /\ pk' = pk
          ELSE /\ pub' = [PubIdle EXCEPT !.pc = "pick", !.op = op, !.variant = v,
                                         !.provider = pr]
               /\ pk' = PickAt("publish", pool, CACHED_URL, now)
  /\ cf' = CfIdle
  /\ env' = [env EXCEPT !.publishes = @ + 1]
  /\ UNCHANGED <<now, pool, CACHED_URL, lastCall, rs, reg, hist, cfg, readSide, otherSide>>

\* pickConn() threw: publish rejects with its error
PublishPickThrown ==
  /\ pub.pc = "pick" /\ pk.pc = "thrown" /\ pk.caller = "publish"
  /\ pub' = [pub EXCEPT !.pc = "rejected", !.err = NoEndpoint,
                        !.toast = IF pub.variant = "discover" THEN "RPC unavailable" ELSE ""]
  /\ pk' = PkIdle
  /\ UNCHANGED <<now, pool, CACHED_URL, lastCall, cf, rs, reg, hist, cfg, env, readSide, otherSide>>

BlockhashOutcomes ==
  { [res |-> "ok",   d |-> FastMs],
    [res |-> "rate", d |-> FastMs] }

\* conn.getLatestBlockhash("finalized"), then selectRegistryForWrite() in
\* registry.ts; discover.ts goes straight to the wallet
PublishBlockhash ==
  /\ pub.pc = "pick" /\ pk.pc = "ret" /\ pk.caller = "publish"
  /\ \E o \in BlockhashOutcomes :
       LET t == now + o.d IN
       /\ Allowed(o)
       /\ env' = Charge(o)
       /\ now' = t
       /\ CASE o.res # "ok" ->
                 /\ pub' = [pub EXCEPT !.pc = "rejected", !.err = RateLimited,
                                       !.toast = IF pub.variant = "discover" THEN "RPC busy" ELSE ""]
                 /\ pk' = PkIdle
                 /\ rs' = rs
            [] o.res = "ok" /\ pub.variant = "registry" ->
                 /\ pub' = [pub EXCEPT !.pc = "registry"]
                 /\ ResolveAt("publish", pool, CACHED_URL, t)
            [] OTHER ->
                 /\ pub' = [pub EXCEPT !.pc = "sign", !.reg = REGISTRY_PK]
                 /\ pk' = PkIdle
                 /\ rs' = rs
  /\ UNCHANGED <<pool, CACHED_URL, lastCall, cf, reg, hist, cfg, readSide, otherSide>>

\* getActiveRegistries() rejected inside selectRegistryForWrite()
PublishRegistryThrown ==
  /\ pub.pc = "registry" /\ rs.pc = "thrown" /\ rs.caller = "publish"
  /\ pub' = [pub EXCEPT !.pc = "rejected", !.err = rs.err]
  /\ rs' = RsIdle
  /\ UNCHANGED <<now, pool, CACHED_URL, lastCall, pk, cf, reg, hist, cfg, env, readSide, otherSide>>

PublishRegistry ==
  /\ pub.pc = "registry" /\ rs.pc = "ret" /\ rs.caller = "publish"
  /\ pub' = [pub EXCEPT !.pc = "sign", !.reg = selectRegistryForWrite(rs.res, now)]
  /\ rs' = RsIdle
  /\ UNCHANGED <<now, pool, CACHED_URL, lastCall, pk, cf, reg, hist, cfg, env, readSide, otherSide>>

\* what the wallet (and, for signOnly, conn.sendRawTransaction) may do
SignOutcomes ==
  { [res |-> "signed",      d |-> SignMs],
    [res |-> "cancel",      d |-> SignMs],
    [res |-> "walletError", d |-> SignMs],
    [res |-> "rate",        d |-> SignMs + FastMs] }

\* the message of the error the signing step rejects with
SignError(res) ==
  CASE res = "cancel"      -> "User rejected the request."
    [] res = "walletError" -> "Wallet internal error"
    [] OTHER               -> RateLimited

\* discover.ts: catch (e) { if (String(e).includes("User rejected")) ... throw e }
SignToast(res) == IF res = "cancel" THEN "Publish canceled." ELSE "Wallet send failed."

\* a handler that swallows the signer's cancellation and goes on
SwallowCancel(variant, res) == res # "cancel"

\* whether a rejection of the signing step leaves publishMemeApi: registry.ts
\* has no handler around it, discover.ts catches, toasts and throws e again
Rethrows(variant, res) == TRUE

\* the wallet answers; with a signature in hand confirmSignatureSmart starts
PublishSign ==
  /\ pub.pc = "sign"
  /\ \E o \in SignOutcomes :
       LET t == now + o.d IN
       /\ o.res = "rate" => pub.provider = "signOnly"
       /\ Allowed(o)
       /\ env' = Charge(o)
       /\ now' = t
       /\ IF o.res = "signed" \/ ~Rethrows(pub.variant, o.res)
          THEN /\ pub' = [pub EXCEPT !.pc = "confirm", !.signer = o.res,
                                     !.sig = IF o.res = "signed" THEN "sig" ELSE ""]
               /\ ConfirmLoop([CfIdle EXCEPT !.variant = pub.variant], pool, CACHED_URL, t)
          ELSE /\ pub' = [pub EXCEPT !.pc = "rejected", !.signer = o.res,
                                     !.err = SignError(o.res),
                                     !.toast = IF pub.variant = "discover"
                                               THEN SignToast(o.res) ELSE ""]
               /\ UNCHANGED <<cf, pk>>
  /\ UNCHANGED <<pool, CACHED_URL, lastCall, rs, reg, hist, cfg, readSide, otherSide>>

\* try { await confirmSignatureSmart(sig) } catch {}; return sig
PublishDone ==
  /\ pub.pc = "confirm" /\ cf.pc \in {"confirmed", "exhausted", "thrown"}
  /\ pub' = [pub EXCEPT !.pc = "done"]
  /\ UNCHANGED <<now, pool, CACHED_URL, lastCall, pk, cf, rs, reg, hist, cfg, env, readSide, otherSide>>

\* the caller has the result; the next user action may start
PublishEnd ==
  /\ pub.pc \in {"done", "rejected"}
  /\ pub' = PubIdle
  /\ cf' = CfIdle
  /\ UNCHANGED <<now, pool, CACHED_URL, lastCall, pk, rs, reg, hist, cfg, env, readSide, otherSide>>

\* time passes between user actions
Idle ==
  /\ pub.pc \in {"idle", "done", "rejected"} /\ rs.pc = "idle"
  /\ env.idles < MaxIdles
  /\ now' = now + IdleMs
  /\ env' = [env EXCEPT !.idles = @ + 1]
  /\ UNCHANGED <<pool, CACHED_URL, lastCall, pk, pub, cf, rs, reg, hist, cfg, readSide, otherSide>>

\* ------------------------------------------------------------------------
\* Bounds of the feed
\* ------------------------------------------------------------------------
FeedEps == 2
MaxRateFaults == 4
MaxFeedFaults == 2
MaxRequests == 3
MaxLegacyCalls == 6
MaxAppends == 1
MaxFeedIdles == 1
FeedIdleMs == 17000
SmallLedger == 3
LargeLedger == 24
LedgerSizes == {SmallLedger, LargeLedger}
FirstSlot == 1000
FirstTime == 5000

\* ------------------------------------------------------------------------
\* Program constants of the feed functions (src/unnamed/part_002 and
\* src/netlify/functions/fetchMemes.ts)
\* ------------------------------------------------------------------------
PAGE_LIMIT_MAX == 32
DEFAULT_LIMIT == 12
TX_BATCH == 10
FEED_MIN_CALL_SPACING == 150
FEED_PROBE_TIMEOUT_MS == 5000
FEED_PROBE_COOLDOWN_STEP == 3000
FEED_PROBE_COOLDOWN_CAP == 30000
PENALTY_CAP == 60000
PENALTY_UNIT == 1000
PENALTY_MAX_EXP == 5
PENALTY_WAIT_STEP == 500
FEED_MAX_TRIES == 3
SIGS_TIMEOUT_MS == 6500
BODIES_TIMEOUT_MS == 9000
MIN_PER_REG == 4
LEGACY_LIMIT_MAX == 50
LEGACY_MIN_PER_REG == 30
\* Number.MAX_SAFE_INTEGER, held here as the largest time the model can hold
MAX_SAFE_INTEGER == 2147483647

\* likes (registry.ts)
LIKE_LAMPORTS == 5000
SUPERLIKE_LAMPORTS == 50000
\* Number(CONFIG.LIKE_FEE_BPS) > 0 ? Number(CONFIG.LIKE_FEE_BPS) : 1000
LIKE_FEE_BPS == IF cfg.LIKE_FEE_BPS > 0 THEN cfg.LIKE_FEE_BPS ELSE 1000
BPS_DENOMINATOR == 10000
MaxLikes == 3

\* bounds of the codec's inputs
ShortLen == 4
WalletLen == 44
MaxRounds == 1

\* the values of the limit parameter a caller sends: none and "2"
QueryLimits == {-1, 2}

\* ------------------------------------------------------------------------
\* JavaScript values and JSON text
\* ------------------------------------------------------------------------
\* a value carries its type; a string is the sequence of its characters
Undef == [ty |-> "undefined"]
Null == [ty |-> "null"]
Str(s) == [ty |-> "string", s |-> s]
Num(n) == [ty |-> "number", n |-> n]
Arr(a) == [ty |-> "array", a |-> a]
Obj(f) == [ty |-> "object", f |-> f]

API == <<"a", "p", "i">>
LIKE == <<"l", "i", "k", "e">>
POST == <<"p", "o", "s", "t">>

\* a text is either the JSON rendering of a value or something JSON.parse rejects
Json(v) == [kind |-> "json", val |-> v]
NotJson(n) == [kind |-> "raw", id |-> n]

\* JSON.stringify: a key whose value is undefined is left out, an undefined
\* array element is written as null
StringifyElem(v) == IF v.ty = "undefined" THEN Null ELSE v
StringifyField(v) ==
  IF v.ty = "array" THEN Arr([i \in DOMAIN v.a |-> StringifyElem(v.a[i])]) ELSE v
stringify(v) ==
  IF v.ty = "object"
  THEN Json(Obj([k \in {k \in DOMAIN v.f : v.f[k].ty # "undefined"} |-> StringifyField(v.f[k])]))
  ELSE Json(StringifyField(v))

\* JSON.parse(s) throws unless s is JSON text
Parses(s) == s.kind = "json"
\* safeJson(s): JSON.parse, null when it throws
safeJson(s) == IF Parses(s) THEN s.val ELSE Null

\* j?.key and j.key on a value that is not null
Get(j, key) == IF j.ty = "object" /\ key \in DOMAIN j.f THEN j.f[key] ELSE Undef

\* x || "" for the values a payload field may hold
OrEmpty(v) == IF v.ty = "string" /\ v.s # <<>> THEN v ELSE Str(<<>>)
\* s.slice(0, n)
Slice(v, n) == Str(SubSeq(v.s, 1, Min(n, Len(v.s))))
\* a.slice(0, n) of an array
SliceArr(a, n) == SubSeq(a, 1, Min(n, Len(a)))

\* ------------------------------------------------------------------------
\* The memo codec (discover.ts encodePayload / tryParsePayload, registry.ts
\* encodeMemo, and the decoders of the feed functions)
\* ------------------------------------------------------------------------
KEY_MAX == 64
LINE_MAX == 140
LINES_MAX == 6
WM_MAX == 64
CREATOR_MAX == 64

encodePayload(p) ==
  LET l == IF Get(p, "l").ty = "array" THEN Get(p, "l").a ELSE <<>>
      safe == Obj([v |-> Num(1),
                   t |-> Str(API),
                   k |-> Slice(OrEmpty(Get(p, "k")), KEY_MAX),
                   l |-> Arr(SliceArr([i \in DOMAIN l |-> Slice(OrEmpty(l[i]), LINE_MAX)],
                                      LINES_MAX)),
                   wm |-> Slice(OrEmpty(Get(p, "wm")), WM_MAX),
                   c |-> Slice(OrEmpty(Get(p, "c")), CREATOR_MAX)])
  IN stringify(safe)

tryParsePayload(s) ==
  IF Parses(s)
  THEN LET j == s.val
       IN IF /\ Get(j, "v") = Num(1)
             /\ Get(j, "t") = Str(API)
             /\ Get(j, "k").ty = "string"
             /\ Get(j, "l").ty = "array"
          THEN j ELSE Null
  ELSE Null

encodeMemo(obj) == stringify(obj)

\* const payload = { v: 1, t: "api", k: opts.key, l: opts.lines, wm: opts.wm, c: creator }
PublishPayload(opts, creator) ==
  Obj([v |-> Num(1), t |-> Str(API), k |-> opts.key, l |-> opts.lines,
       wm |-> opts.wm, c |-> creator])

\* the feed functions' test of a memo: m?.t === 'api' && typeof m.k === 'string'
\* && Array.isArray(m.l)
IsMeme(memoStr) ==
  LET m == safeJson(memoStr)
  IN Get(m, "t") = Str(API) /\ Get(m, "k").ty = "string" /\ Get(m, "l").ty = "array"

\* ------------------------------------------------------------------------
\* The feed function's pool (src/unnamed/part_002)
\* ------------------------------------------------------------------------
\* [...pool].sort((a, b) => (a.cooldownUntil - b.cooldownUntil) || (a.fail - b.fail))
FeedBefore(p, a, b) ==
  \/ p[a].cooldownUntil < p[b].cooldownUntil
  \/ p[a].cooldownUntil = p[b].cooldownUntil /\ p[a].fail < p[b].fail
  \/ p[a].cooldownUntil = p[b].cooldownUntil /\ p[a].fail = p[b].fail /\ a < b

FeedSortPool(p) ==
  [i \in DOMAIN p |->
     CHOOSE e \in DOMAIN p : Cardinality({f \in DOMAIN p : FeedBefore(p, f, e)}) = i - 1]

\* "if (ep.cooldownUntil > now) continue": the next index of `order` at or
\* after `from` that is probed, 0 when the loop runs out
FeedNextCandidate(p, order, from, t) ==
  LET ok == {i \in from..Len(order) : p[order[i]].cooldownUntil <= t}
  IN IF ok = {} THEN 0 ELSE CHOOSE i \in ok : \A k \in ok : i <= k

\* Math.min(30000, 3000 * ep.fail)
FeedProbeCooldown(fail) == Min(FEED_PROBE_COOLDOWN_CAP, FEED_PROBE_COOLDOWN_STEP * fail)

\* Math.min(60000, 1000 * Math.pow(2, Math.min(5, ep.fail)))
PenaltyCooldown(fail) == Min(PENALTY_CAP, PENALTY_UNIT * (2 ^ Min(PENALTY_MAX_EXP, fail)))

\* the pool after penalize(url, attempt) at time t
penalize(p, ep, t) ==
  [p EXCEPT ![ep] = [fail |-> p[ep].fail + 1,
                     cooldownUntil |-> t + PenaltyCooldown(p[ep].fail + 1)]]

\* what penalize returns, the time the caller then sleeps
PenaltyWait(attempt) == PENALTY_WAIT_STEP * attempt

\* the pool after a failed probe of ep in a pickConn entered at now0
FeedProbeFailed(p, ep, now0) ==
  [p EXCEPT ![ep] = [fail |-> p[ep].fail + 1,
                     cooldownUntil |-> now0 + FeedProbeCooldown(p[ep].fail + 1)]]

\* the record of the cooldowns charged to an endpoint: a failure shifts the
\* last cooldown to prev, an answer from the endpoint ends the run of failures
Charged(ch, ep, cooldown) == [ch EXCEPT ![ep] = [prev |-> ch[ep].last, last |-> cooldown]]
Answered(ch, ep) == [ch EXCEPT ![ep] = [prev |-> 0, last |-> 0]]

\* rateLimitPause() entered at t resolves at this time, which lastCallAt takes
FeedPauseEnd(t, lc) == IF t - lc < FEED_MIN_CALL_SPACING THEN lc + FEED_MIN_CALL_SPACING ELSE t

\* a gateway answer that is a failure; the environment hands out at most
\* MaxRateFaults 429 answers and MaxFeedFaults other failures in one run
FeedFault(o) == o.res \notin {"ok", "rate"}
FeedAllowed(o) ==
  /\ o.res = "rate" => fenv.rates < MaxRateFaults
  /\ FeedFault(o) => fenv.faults < MaxFeedFaults
FeedCharge(o) ==
  [fenv EXCEPT !.rates = @ + (IF o.res = "rate" THEN 1 ELSE 0),
               !.faults = @ + (IF FeedFault(o) THEN 1 ELSE 0)]

\* ------------------------------------------------------------------------
\* The cursor codec and the ledger (src/unnamed/part_002)
\* ------------------------------------------------------------------------
\* a Cursor maps the one registry to the signature to read before; EmptyCursor is {}
EmptyCursor == 0
NoToken == [enc |-> "none"]
encodeCursor(cur) == [enc |-> "base64url", cur |-> cur]
decodeCursor(tok) ==
  IF tok = NoToken THEN EmptyCursor
  ELSE IF tok.enc = "base64url" THEN tok.cur ELSE EmptyCursor

\* getSignaturesForAddress(r, { before, limit }): the entries after `before`
\* in the account's history, newest first, at most `limit` of them
PositionOf(led, sig) == CHOOSE i \in 1..Len(led) : led[i].sig = sig
SignaturesBefore(led, before, limit) ==
  LET from == IF before = EmptyCursor THEN 1 ELSE PositionOf(led, before) + 1
  IN SubSeq(led, from, Min(Len(led), from + limit - 1))

\* sigs.map(s => ({ sig, slot, blockTime, reg }))
Row(s) == [sig |-> s.sig, slot |-> s.slot, blockTime |-> s.blockTime, reg |-> REGISTRY_FALLBACK]

SampleOpts == [key |-> Str(<<"d", "o", "g", "e">>),
               lines |-> Arr(<<Str(<<"s", "u", "c", "h">>), Str(<<"w", "o", "w">>)>>),
               wm |-> Undef]
SampleCreator == Str(<<"W", "1">>)
PostMemo == encodeMemo(PublishPayload(SampleOpts, SampleCreator))
LikeMemo == encodeMemo(Obj([v |-> Num(1), t |-> Str(LIKE), id |-> Str(<<"s", "1">>),
                            c |-> SampleCreator, amt |-> Num(5000)]))

\* the memo text of a ledger entry, which records only its kind
MemoText(kind) ==
  IF kind = "post" THEN PostMemo
  ELSE IF kind = "like" THEN LikeMemo ELSE NotJson(0)

\* the transaction a gateway returns for a signature
TxOf(led, sig) ==
  LET e == led[PositionOf(led, sig)]
  IN [sig |-> e.sig, slot |-> e.slot, blockTime |-> e.blockTime, memo |-> MemoText(e.memo)]

\* rows.sort((a, b) => b.slot - a.slot), a stable sort
SortBySlot(rows) ==
  LET n == Len(rows)
      ahead(i, j) == \/ rows[j].slot > rows[i].slot
                     \/ (rows[j].slot = rows[i].slot /\ j < i)
      rank(i) == 1 + Cardinality({j \in 1..n : ahead(i, j)})
  IN [k \in 1..n |-> rows[CHOOSE i \in 1..n : rank(i) = k]]

\* the loop that picks the top `limit` unique rows
RECURSIVE SelectFrom(_, _, _, _, _)
SelectFrom(merged, i, seen, selected, limit) ==
  IF i > Len(merged) THEN selected
  ELSE IF merged[i].sig \in seen THEN SelectFrom(merged, i + 1, seen, selected, limit)
  ELSE LET more == Append(selected, merged[i])
       IN IF Len(more) >= limit THEN more
          ELSE SelectFrom(merged, i + 1, seen \cup {merged[i].sig}, more, limit)

\* Math.max(1, Math.min(PAGE_LIMIT_MAX, parseInt(q.limit || String(DEFAULT_LIMIT), 10) || DEFAULT_LIMIT))
NoParam == -1
ParseLimit(q) ==
  LET n == IF q = NoParam \/ q = 0 THEN DEFAULT_LIMIT ELSE q
  IN IF Min(PAGE_LIMIT_MAX, n) < 1 THEN 1 ELSE Min(PAGE_LIMIT_MAX, n)

\* Math.max(4, Math.ceil(limit / registries.length)) with the one registry
PerReg(limit) == IF limit < MIN_PER_REG THEN MIN_PER_REG ELSE limit

\* lastPerReg after the forEach over a batch: every row sets it, a meme or not
CursorAfter(cur, batch) == IF batch = <<>> THEN cur ELSE batch[Len(batch)].sig

\* the items the forEach pushes for a batch; `missing` are the signatures the
\* gateway answered null for
ItemOf(led, row) ==
  LET tx == TxOf(led, row.sig)
  IN [sig |-> row.sig, slot |-> tx.slot, time |-> tx.blockTime * 1000, p |-> safeJson(tx.memo)]
BatchItems(led, batch, missing) ==
  LET Pushed(row) == row.sig \notin missing /\ IsMeme(TxOf(led, row.sig).memo)
      rows == SelectSeq(batch, Pushed)
  IN [i \in DOMAIN rows |-> ItemOf(led, rows[i])]

Sigs(items) == {items[i].sig : i \in DOMAIN items}
\* ------------------------------------------------------------------------
\* handler / buildPage / pickConn of the feed function (src/unnamed/part_002)
\* ------------------------------------------------------------------------
SrvIdle == [pc |-> "idle", limit |-> 0, cursor |-> EmptyCursor, now0 |-> 0,
            order |-> <<>>, idx |-> 0, conn |-> NoEp, tries |-> 0,
            selected |-> <<>>, i |-> 0, items |-> <<>>, lastPerReg |-> EmptyCursor]

\* the caller of the handler: it keeps the token of the last page and sends
\* it back as q.cursor; prev and last are the signatures of its last two pages
ClientIdle == [q |-> NoParam, token |-> NoToken, prev |-> {}, last |-> {}, pages |-> 0,
               status |-> 0]

Received(cl, status, items, token) ==
  IF status = 200
  THEN [q |-> cl.q, token |-> token, prev |-> cl.last, last |-> Sigs(items),
        pages |-> Min(2, cl.pages + 1), status |-> 200]
  ELSE [cl EXCEPT !.status = status]

\* what a gateway may answer to the probe (getLatestBlockhash under withTimeout)
FeedProbeOutcomes ==
  { [res |-> "ok",      d |-> FastMs],
    [res |-> "timeout", d |-> FEED_PROBE_TIMEOUT_MS] }

\* the handler is called: limit and cursor are read, buildPage enters pickConn,
\* which sorts the pool and goes to its first probe or throws
FeedRequest ==
  /\ srv.pc = "idle"
  /\ fenv.requests < MaxRequests
  /\ LET q == client.q IN
       LET order == FeedSortPool(spool)
           i == FeedNextCandidate(spool, order, 1, now)
       IN IF i = 0
          THEN /\ srv' = SrvIdle
               /\ client' = Received(client, 500, <<>>, NoToken)
          ELSE /\ srv' = [SrvIdle EXCEPT !.pc = "probe", !.limit = ParseLimit(q),
                                         !.cursor = decodeCursor(client.token),
                                         !.now0 = now, !.order = order, !.idx = i]
               /\ client' = client
  /\ fenv' = [fenv EXCEPT !.requests = @ + 1]
  /\ UNCHANGED <<now, ledger, spool, lastCallAt, charged, legacy, writeSide, otherSide, codec, tally>>

\* one probe of pickConn's loop answers
FeedProbe ==
  /\ srv.pc = "probe"
  /\ \E o \in FeedProbeOutcomes :
       LET ep == srv.order[srv.idx] IN
       /\ FeedAllowed(o)
       /\ fenv' = FeedCharge(o)
       /\ now' = now + o.d
       /\ IF o.res = "ok"
          THEN /\ spool' = spool
               /\ charged' = Answered(charged, ep)
               /\ srv' = [srv EXCEPT !.pc = "sigs", !.conn = ep, !.tries = 0]
               /\ client' = client
          ELSE LET p2 == FeedProbeFailed(spool, ep, srv.now0)
                   i == FeedNextCandidate(p2, srv.order, srv.idx + 1, srv.now0)
               IN /\ spool' = p2
                  /\ charged' = Charged(charged, ep, p2[ep].cooldownUntil - srv.now0)
                  /\ IF i = 0
                     THEN /\ srv' = SrvIdle
                          /\ client' = Received(client, 500, <<>>, NoToken)
                     ELSE /\ srv' = [srv EXCEPT !.idx = i]
                          /\ client' = client
  /\ UNCHANGED <<ledger, lastCallAt, legacy, writeSide, otherSide, codec, tally>>

\* what a gateway may answer to a query of the page
QueryOutcomes(timeout) ==
  { [res |-> "ok",      d |-> FastMs],
    [res |-> "missing", d |-> FastMs],
    [res |-> "rate",    d |-> FastMs],
    [res |-> "timeout", d |-> timeout] }

\* the catch of both retry loops: a 429 with tries < 3 penalizes the
\* connection's endpoint and sleeps, anything else is thrown to the handler,
\* which answers 429 or 500
Caught(o, t) ==
  IF o.res = "rate" /\ srv.tries < FEED_MAX_TRIES
  THEN /\ spool' = penalize(spool, srv.conn, t + o.d)
       /\ charged' = Charged(charged, srv.conn,
                             PenaltyCooldown(spool[srv.conn].fail + 1))
       /\ now' = t + o.d + PenaltyWait(srv.tries + 1)
       /\ srv' = [srv EXCEPT !.tries = @ + 1]
       /\ client' = client
  ELSE /\ spool' = spool
       /\ charged' = charged
       /\ now' = t + o.d
       /\ srv' = SrvIdle
       /\ client' = Received(client, IF o.res = "rate" THEN 429 ELSE 500, <<>>, NoToken)

\* one turn of the signature loop: rateLimitPause, then getSignaturesForAddress
\* answers; on an answer the rows are merged, sorted and selected
FeedSigs ==
  /\ srv.pc = "sigs"
  /\ LET t == FeedPauseEnd(now, lastCallAt) IN
     /\ lastCallAt' = t
     /\ \E o \in QueryOutcomes(SIGS_TIMEOUT_MS) :
          /\ o.res # "missing"
          /\ FeedAllowed(o)
          /\ fenv' = FeedCharge(o)
          /\ IF o.res = "ok"
             THEN LET sigs == SignaturesBefore(ledger, srv.cursor, PerReg(srv.limit))
                      merged == [i \in DOMAIN sigs |-> Row(sigs[i])]
                  IN /\ now' = t + o.d
                     /\ spool' = spool
                     /\ charged' = Answered(charged, srv.conn)
                     /\ IF merged = <<>>
                        THEN /\ srv' = SrvIdle
                             /\ client' = Received(client, 200, <<>>, encodeCursor(srv.cursor))
                        ELSE /\ srv' = [srv EXCEPT
                                          !.pc = "bodies", !.tries = 0, !.i = 0,
                                          !.selected = SelectFrom(SortBySlot(merged), 1, {},
                                                                  <<>>, srv.limit),
                                          !.lastPerReg = srv.cursor]
                             /\ client' = client
             ELSE Caught(o, t)
  /\ UNCHANGED <<ledger, legacy, writeSide, otherSide, codec, tally>>

\* selected.slice(i, i + TX_BATCH): the signatures the next
\* getParsedTransactions call carries
BodyBatch(sv) == SubSeq(sv.selected, sv.i + 1, Min(Len(sv.selected), sv.i + TX_BATCH))

\* one turn of a batch's loop: rateLimitPause, then getParsedTransactions
\* answers; after the last batch the items are sorted and the page returned
FeedBodies ==
  /\ srv.pc = "bodies"
  /\ LET t == FeedPauseEnd(now, lastCallAt) IN
     /\ lastCallAt' = t
     /\ \E o \in QueryOutcomes(BODIES_TIMEOUT_MS) :
          /\ FeedAllowed(o)
          /\ fenv' = FeedCharge(o)
          /\ IF o.res \in {"ok", "missing"}
             THEN LET batch == BodyBatch(srv)
                      missing == IF o.res = "missing" THEN {batch[1].sig} ELSE {}
                      items == srv.items \o BatchItems(ledger, batch, missing)
                      last == CursorAfter(srv.lastPerReg, batch)
                  IN /\ now' = t + o.d
                     /\ spool' = spool
                     /\ charged' = Answered(charged, srv.conn)
                     /\ IF srv.i + TX_BATCH < Len(srv.selected)
                        THEN /\ srv' = [srv EXCEPT !.i = @ + TX_BATCH, !.tries = 0,
                                                   !.items = items, !.lastPerReg = last]
                             /\ client' = client
                        ELSE /\ srv' = SrvIdle
                             /\ client' = Received(client, 200, SortBySlot(items),
                                                   encodeCursor(last))
             ELSE Caught(o, t)
  /\ UNCHANGED <<ledger, legacy, writeSide, otherSide, codec, tally>>
\* ------------------------------------------------------------------------
\* The older feed function (src/netlify/functions/fetchMemes.ts)
\* ------------------------------------------------------------------------
\* Math.max(1, Math.min(50, Number(event.queryStringParameters?.limit || "12")))
LegacyLimit(q) ==
  LET n == IF q = NoParam THEN DEFAULT_LIMIT ELSE q
  IN IF Min(LEGACY_LIMIT_MAX, n) < 1 THEN 1 ELSE Min(LEGACY_LIMIT_MAX, n)

\* Math.max(limit, 30)
LegacyPerReg(limit) == IF limit < LEGACY_MIN_PER_REG THEN LEGACY_MIN_PER_REG ELSE limit

\* the cutoff: the block time of the `before` transaction as the gateway
\* returned it (tx = Null when it returned none), else no cutoff
NoBefore == 0
CutoffMs(before, tx) ==
  IF before = NoBefore THEN MAX_SAFE_INTEGER
  ELSE LET bt == IF tx = Null THEN 0 ELSE tx.blockTime
       IN IF bt > 0 THEN bt * 1000 ELSE MAX_SAFE_INTEGER

\* the rows kept of the newest perReg transactions: memes with a block time
\* under the cutoff
LegacyMerged(led, perReg, cutoffMs) ==
  LET sigs == SubSeq(led, 1, Min(Len(led), perReg))
      txs == [i \in DOMAIN sigs |-> TxOf(led, sigs[i].sig)]
      Kept(tx) == /\ IsMeme(tx.memo)
                  /\ tx.blockTime * 1000 # 0
                  /\ tx.blockTime * 1000 < cutoffMs
      rows == SelectSeq(txs, Kept)
  IN [i \in DOMAIN rows |-> [sig |-> rows[i].sig, slot |-> rows[i].slot,
                             time |-> rows[i].blockTime * 1000,
                             p |-> safeJson(rows[i].memo)]]

\* items[items.length - 1]?.sig || null
NextBefore(items) == IF items = <<>> THEN NoBefore ELSE items[Len(items)].sig

\* `shown` are the signatures of the items the caller got since it last
\* called without `before`, `faults` the calls of that walk that met a
\* gateway fault or a second registry
LegacyIdle == [q |-> NoParam, before |-> NoBefore, prev |-> {}, last |-> {}, pages |-> 0,
               status |-> 0, limit |-> 0, items |-> <<>>, shown |-> <<>>, faults |-> 0]

\* the history of a second registry of the manifest: the transactions of
\* `led` that name that registry as well
AlsoIn(led, also) == SelectSeq(led, LAMBDA e : e.sig \in also)

LegacyOutcomes ==
  { [res |-> "ok",      d |-> FastMs],
    [res |-> "missing", d |-> FastMs],
    [res |-> "error",   d |-> FastMs] }

\* one call of the handler, by a caller that sends back the nextBefore of its
\* last page.  The registries are the configured one (`also` empty) or the
\* two of a manifest, the second of which is named by the transactions in
\* `also`.  The handler keeps no state between its awaits, so the call is one
\* step: "missing" is the gateway returning no transaction for `before`,
\* "error" is any of its calls throwing
FetchMemes ==
  /\ fenv.legacyCalls < MaxLegacyCalls
  /\ \E o \in LegacyOutcomes, also \in SUBSET {ledger[1].sig, ledger[Len(ledger)].sig} :
       /\ FeedAllowed(o)
       /\ o.res = "error" => also = {}
       /\ o.res = "missing" => legacy.before # NoBefore
       /\ fenv' = [FeedCharge(o) EXCEPT !.legacyCalls = @ + 1]
       /\ now' = now + o.d
       /\ IF o.res = "error"
          THEN legacy' = [legacy EXCEPT !.status = 500, !.faults = @ + 1]
          ELSE LET limit == LegacyLimit(legacy.q)
                   tx == IF o.res = "missing" \/ legacy.before = NoBefore
                         THEN Null ELSE TxOf(ledger, legacy.before)
                   cutoffMs == CutoffMs(legacy.before, tx)
                   merged == LegacyMerged(ledger, LegacyPerReg(limit), cutoffMs)
                               \o LegacyMerged(AlsoIn(ledger, also), LegacyPerReg(limit),
                                               cutoffMs)
                   items == SliceArr(SortBySlot(merged), limit)
               IN legacy' = [q |-> legacy.q, before |-> NextBefore(items), prev |-> legacy.last,
                             last |-> Sigs(items), pages |-> Min(2, legacy.pages + 1),
                             status |-> 200, limit |-> limit, items |-> items,
                             shown |-> (IF legacy.before = NoBefore THEN <<>> ELSE legacy.shown)
                                         \o [i \in DOMAIN items |-> items[i].sig],
                             faults |-> (IF legacy.before = NoBefore THEN 0 ELSE legacy.faults)
                                          + (IF o.res = "missing" \/ also # {} THEN 1 ELSE 0)]
  /\ UNCHANGED <<ledger, spool, lastCallAt, charged, srv, client, writeSide, otherSide, codec, tally>>

\* ------------------------------------------------------------------------
\* The feed: both functions, their callers and the ledger
\* ------------------------------------------------------------------------
\* a registry history of n transactions, newest first: two transactions to a
\* slot, four to a second, every fifth without a block time, every third a
\* like and every seventh not JSON
LedgerOf(n) ==
  [i \in 1..n |->
     LET seq == n - i
     IN [sig |-> seq + 1,
         slot |-> FirstSlot + seq \div 2,
         blockTime |-> IF seq % 5 = 4 THEN 0 ELSE FirstTime + seq \div 4,
         memo |-> IF seq % 7 = 6 THEN "raw"
                  ELSE IF seq % 3 = 2 THEN "like" ELSE "post"]]

\* a new post lands on the registry between two calls; one that lands during
\* a call is seen by the call's one read of the history's head or is not
LedgerAppend ==
  /\ srv.pc = "idle"
  /\ fenv.appends < MaxAppends
  /\ LET top == ledger[1]
     IN ledger' = <<[sig |-> top.sig + 1, slot |-> top.slot + 1,
                     blockTime |-> FirstTime + top.slot, memo |-> "post"]>> \o ledger
  /\ fenv' = [fenv EXCEPT !.appends = @ + 1]
  /\ UNCHANGED <<now, spool, lastCallAt, charged, srv, client, legacy, writeSide, otherSide, codec, tally>>

\* time passes between two calls of the feed function
FeedIdle ==
  /\ srv.pc = "idle"
  /\ fenv.idles < MaxFeedIdles
  /\ now' = now + FeedIdleMs
  /\ fenv' = [fenv EXCEPT !.idles = @ + 1]
  /\ UNCHANGED <<ledger, spool, lastCallAt, charged, srv, client, legacy, writeSide, otherSide, codec, tally>>

\* ------------------------------------------------------------------------
\* The read side at rest
\* ------------------------------------------------------------------------
\* `data` is the memo instruction's data when the gateway delivered the
\* instruction unparsed
CodecIdle == [pc |-> "idle", variant |-> "", E |-> Null, memo |-> NotJson(0), data |-> NotJson(0),
              decoder |-> "", out |-> Null, rounds |-> 0]
\* `regs` are the registries the like-count endpoint read on its last call
\* `index` is the feed builder's index.json and what its runs have done:
\* `top` is the number of transactions on the registry (their signatures
\* are 1..top, the newest last), `cursor` the stored cursor (0: null),
\* `done` the ranges of signatures the runs have processed, `base` the
\* cursor the first run stored and `at` the size of the registry at the
\* latest run
IndexIdle == [top |-> 0, cursor |-> 0, done |-> <<>>, runs |-> 0, grown |-> 0,
              base |-> 0, at |-> 0]
TallyIdle == [pc |-> "idle", txs |-> <<>>, by |-> "", status |-> 0, out |-> <<>>, regs |-> <<>>,
              index |-> IndexIdle]

FreshFeedPool(n) == [e \in 1..n |-> [cooldownUntil |-> 0, fail |-> 0]]
FreshFeedEnv == [rates |-> 0, faults |-> 0, idles |-> 0, requests |-> 0,
                 legacyCalls |-> 0, appends |-> 0]

FeedAtRest ==
  /\ ledger = LedgerOf(SmallLedger)
  /\ spool = FreshFeedPool(1)
  /\ lastCallAt = 0
  /\ charged = [e \in 1..1 |-> [prev |-> 0, last |-> 0]]
  /\ srv = SrvIdle
  /\ client = ClientIdle
  /\ legacy = LegacyIdle
  /\ fenv = FreshFeedEnv

FreshPool(n) == [e \in 1..n |-> [cooldownUntil |-> 0, failScore |-> 0]]

\* bounds of the overlapping calls on registry.ts's pool
NumCallers == 2
MaxRaceCalls == 3
MaxRaceTicks == 3

\* no pickConn() call in progress; `at` is the time of each endpoint's last
\* penalty
RaceIdle ==
  [calls |-> [c \in 1..NumCallers |-> PkIdle],
   since |-> [c \in 1..NumCallers |-> 0],
   at |-> [e \in 1..NumEps |-> 0],
   entered |-> 0,
   ticks |-> 0]

\* the withFailover calls that may overlap
NumFoCallers == 2
\* a withFailover call that has not started; `on` is the index of the
\* endpoint whose connection its current try was given, `failedOn` that of
\* its last failed try (-1: none), `since` the time its current try started
FoCallIdle ==
  [pc |-> "idle", i |-> 0, delay |-> 0, wake |-> 0, on |-> -1, failedOn |-> -1, since |-> 0]
\* solana.ts at load: rpcIndex 0, pauseUntil 0, no call in progress; `ov`
\* holds the overlapping calls, which share rpcIndex and pauseUntil
FoIdle ==
  [pc |-> "idle", i |-> 0, delay |-> 0, wake |-> 0, err |-> <<>>,
   rpcIndex |-> 0, pauseUntil |-> 0, calls |-> 0,
   ov |-> [c \in 1..NumFoCallers |-> FoCallIdle], ticks |-> 0]

\* initDiscoverFeed: lastSig undefined, nothing loaded; `considered` are the
\* signatures the last fetchPage got from the gateway, `earlier` those of the
\* pages before it, `dropped` the chunks fetchPage has given up so far
\* The feed with like buttons: `cards` are its cards, each with the content
\* id it shows and the click listeners on its like button, `likesMap` the
\* counts held in memory, `liked` the content id of every publishLike that
\* succeeded.
\* `loading` is loadMore's flag, `inflight` the cursor each loadMore() call
\* that awaits fetchPage passed to it, `grid` the signatures of the cards
\* appended, `log` the cursors whose page was appended, `ignored` the calls
\* that returned at once
DiscIdle ==
  [lastSig |-> EmptyCursor, noMore |-> FALSE, pages |-> 0, status |-> "idle",
   considered |-> {}, earlier |-> {}, dropped |-> 0,
   loading |-> FALSE, inflight |-> <<>>, grid |-> <<>>, log |-> <<>>, ignored |-> 0,
   cards |-> <<>>, likesMap |-> <<>>, liked |-> <<>>, clicks |-> 0]

\* the writers that share one registry list
NumWriters == 2
\* no writer has called selectRegistryForWrite(): `at` is the Date.now() a
\* writer's call read, 0 before its call
SelIdle ==
  [regs |-> <<>>, ticks |-> 0,
   out |-> [w \in 1..NumWriters |-> [reg |-> "", at |-> 0]]]

OtherAtRest == race = RaceIdle /\ fo = FoIdle /\ disc = DiscIdle /\ sel = SelIdle

FreshEnv == [faults |-> 0, idles |-> 0, publishes |-> 0, resolves |-> 0]

\* no writer, poller or resolver in progress
WritersAtRest ==
  /\ \E n \in 1..1 : pool = FreshPool(n)
  /\ CACHED_URL = NoEp
  /\ lastCall = 0
  /\ pk = PkIdle
  /\ pub = PubIdle
  /\ cf = CfIdle
  /\ rs = RsIdle
  /\ reg = NoRegistries
  /\ hist = <<>>
  /\ env = FreshEnv

WriteAtRest ==
  /\ WritersAtRest
  /\ cfg = [WRITE_SHARDING |-> TRUE, PUBLISH_REGISTRY |-> "", LIKE_FEE_BPS |-> 1000]

InitFeed ==
  /\ now = StartMs
  /\ WriteAtRest
  /\ codec = CodecIdle
  /\ tally = TallyIdle
  /\ ledger \in {LedgerOf(n) : n \in LedgerSizes}
  /\ \E n \in 1..FeedEps :
       /\ spool = FreshFeedPool(n)
       /\ charged = [e \in 1..n |-> [prev |-> 0, last |-> 0]]
  /\ lastCallAt = 0
  /\ srv = SrvIdle
  /\ \E q \in QueryLimits :
       /\ client = [ClientIdle EXCEPT !.q = q]
       /\ legacy = [LegacyIdle EXCEPT !.q = q]
  /\ fenv = FreshFeedEnv
  /\ OtherAtRest

NextFeed ==
  \/ FeedRequest \/ FeedProbe \/ FeedSigs \/ FeedBodies
  \/ LedgerAppend \/ FeedIdle

SpecFeed == InitFeed /\ [][NextFeed]_vars

\* the older feed function alone, over the same ledgers
NextLegacy == FetchMemes \/ LedgerAppend

SpecLegacy == InitFeed /\ [][NextLegacy]_vars

ReadAtRest == FeedAtRest /\ codec = CodecIdle /\ tally = TallyIdle

\* ------------------------------------------------------------------------
\* The codec on the publish path and in the three decoders
\* ------------------------------------------------------------------------
\* a string of n characters, no two neighbours alike
Digits == <<"0", "1", "2", "3", "4", "5", "6", "7", "8", "9">>
Chars(n) == Str([i \in 1..n |-> Digits[(i % 10) + 1]])
Lines(count, n) == Arr([i \in 1..count |-> Chars(n)])

\* the opts a caller may hand to publishMemeApi: fields empty, short, at the
\* cap and one over it; wm may be left out
KeyLens == {0, ShortLen, KEY_MAX, KEY_MAX + 1}
LineShapes == { <<0, 0>>, <<1, 0>>, <<1, ShortLen>>, <<1, LINE_MAX>>, <<1, LINE_MAX + 1>>,
                <<LINES_MAX, ShortLen>>, <<LINES_MAX + 1, ShortLen>> }
Watermarks == {Undef, Chars(ShortLen), Chars(WM_MAX), Chars(WM_MAX + 1)}
PublishOpts ==
  { [key |-> Chars(k), lines |-> Lines(ls[1], ls[2]), wm |-> w] :
      k \in KeyLens, ls \in LineShapes, w \in Watermarks }
Creator == Chars(WalletLen)

\* the memo publishMemeApi puts in the transaction: registry.ts (and the
\* newer discover.ts) write encodeMemo(payload), the older discover.ts writes
\* encodePayload(payload)
PublishMemo(variant, opts, creator) ==
  IF variant = "discover"
  THEN encodePayload(PublishPayload(opts, creator))
  ELSE encodeMemo(PublishPayload(opts, creator))

\* memos that other writers may have left on the registry
ForeignMemos ==
  { NotJson(0),
    Json(Null),
    Json(Num(7)),
    Json(Chars(ShortLen)),
    Json(Arr(<<>>)),
    Json(Obj([t |-> Str(API), k |-> Chars(ShortLen), l |-> Arr(<<>>)])),
    Json(Obj([v |-> Num(2), t |-> Str(API), k |-> Chars(ShortLen), l |-> Arr(<<>>),
              c |-> Chars(ShortLen)])),
    Json(Obj([v |-> Num(1), t |-> Str(API), k |-> Chars(ShortLen), l |-> Arr(<<>>)])),
    Json(Obj([v |-> Num(1), t |-> Str(API), k |-> Num(7), l |-> Arr(<<>>),
              c |-> Chars(ShortLen)])),
    Json(Obj([v |-> Num(1), t |-> Str(API), k |-> Chars(ShortLen), c |-> Chars(ShortLen)])),
    Json(Obj([v |-> Num(1), k |-> Chars(ShortLen), l |-> Arr(<<>>), c |-> Chars(ShortLen)])),
    Json(Obj([t |-> Str(LIKE), id |-> Chars(ShortLen)])),
    Json(Obj([v |-> Num(1), t |-> Str(LIKE), c |-> Chars(ShortLen), amt |-> Num(5000)])),
    Json(Obj([v |-> Num(1), t |-> Str(LIKE), id |-> Num(7), c |-> Chars(ShortLen),
              amt |-> Num(5000)])),
    Json(Obj([v |-> Num(1), t |-> Str(LIKE), id |-> Chars(ShortLen), c |-> Chars(ShortLen),
              amt |-> Num(5000)])) }

\* fetchLikes.ts: j && j.t === "like" && typeof j.id === "string"
IsLike(memoStr) ==
  LET j == safeJson(memoStr)
  IN Get(j, "t") = Str(LIKE) /\ Get(j, "id").ty = "string"

\* what each decoder surfaces for a memo, Null when it skips the transaction
Decoders == {"tryParsePayload", "fetchMemes", "fetchLikes"}
Decode(decoder, memoStr) ==
  IF decoder = "tryParsePayload" THEN tryParsePayload(memoStr)
  ELSE IF decoder = "fetchMemes" THEN (IF IsMeme(memoStr) THEN safeJson(memoStr) ELSE Null)
  ELSE (IF IsLike(memoStr) THEN safeJson(memoStr) ELSE Null)

\* publishMemeApi builds the payload of its opts and writes its memo
CodecPublish ==
  /\ codec.pc = "idle"
  /\ \E variant \in Variants, opts \in PublishOpts :
       codec' = [CodecIdle EXCEPT !.pc = "written", !.variant = variant,
                                  !.E = PublishPayload(opts, Creator),
                                  !.memo = PublishMemo(variant, opts, Creator)]
  /\ UNCHANGED <<now, writeSide, otherSide, feedSide, tally>>

\* a decoder meets a memo of another writer
CodecForeign ==
  /\ codec.pc = "idle"
  /\ \E memoStr \in ForeignMemos :
       codec' = [CodecIdle EXCEPT !.pc = "written", !.variant = "foreign", !.memo = memoStr]
  /\ UNCHANGED <<now, writeSide, otherSide, feedSide, tally>>

\* one of the decoders reads the memo
CodecDecode ==
  /\ codec.pc = "written"
  /\ \E decoder \in Decoders :
       codec' = [codec EXCEPT !.pc = "decoded", !.decoder = decoder,
                              !.out = Decode(decoder, codec.memo)]
  /\ UNCHANGED <<now, writeSide, otherSide, feedSide, tally>>

\* the decoded payload is encoded again with encodePayload
CodecAgain ==
  /\ codec.pc = "decoded"
  /\ codec.decoder = "tryParsePayload"
  /\ codec.out # Null
  /\ codec.rounds < MaxRounds
  /\ codec' = [codec EXCEPT !.pc = "written", !.variant = "discover", !.E = codec.out,
                            !.memo = encodePayload(codec.out), !.decoder = "",
                            !.out = Null, !.rounds = @ + 1]
  /\ UNCHANGED <<now, writeSide, otherSide, feedSide, tally>>

\* fetchPageFromApi's filter of an item the feed endpoint delivered:
\* x && x.sig && x.p && Array.isArray(x.p.l) && typeof x.p.k === "string"
ApiFilter(x) ==
  /\ x.sig # ""
  /\ x.p.ty = "object"
  /\ Get(x.p, "l").ty = "array"
  /\ Get(x.p, "k").ty = "string"

\* whether the client surfaces what a decoder kept: an event of the gateway
\* scan (tryParsePayload in fetchPage) becomes a feed item as it is, an item
\* of the feed endpoint goes through fetchPageFromApi's filter, and a count
\* of the likes endpoint is taken as it is by loadRecentLikesMapFromApi
Surfaces(decoder, out) ==
  /\ out # Null
  /\ decoder = "fetchMemes" => ApiFilter([sig |-> "sig", p |-> out])

\* the base64 text of a text: not JSON text, whatever it encodes
Base64(text) == [kind |-> "base64", of |-> text]
\* the empty string
EmptyText == NotJson(1)
\* the forms in which a gateway may deliver the data of an unparsed memo
\* instruction: the memo's text, or its base64 text
DataForms == {"text", "base64"}

\* Buffer.from(data, "utf8").toString("utf8"): every string has a UTF-8
\* encoding, which decodes to the string; the call does not throw
Utf8Throws(data) == FALSE
\* Buffer.from(data, "base64").toString("utf8")
FromBase64(data) == IF data.kind = "base64" THEN data.of ELSE NotJson(2)

\* try utf8, and base64 in the catch of utf8
tryDecodeUtf8ThenBase64(data) == IF Utf8Throws(data) THEN FromBase64(data) ELSE data

\* a transaction whose memo instruction has no `parsed` member
RawTx(data) == [parsed |-> FALSE, memo |-> EmptyText, data |-> data]
\* extractMemoFromTx: i.parsed.memo when it is a string, otherwise the
\* decoding of i.data
extractMemoFromTx(tx) ==
  IF tx.parsed THEN tx.memo
  ELSE LET t == tryDecodeUtf8ThenBase64(tx.data) IN IF t # Null THEN t ELSE EmptyText

\* the gateway delivers the memo instruction unparsed, and a decoder reads
\* what extractMemoFromTx makes of its data
CodecExtract ==
  /\ codec.pc = "written"
  /\ \E decoder \in Decoders, form \in DataForms :
       LET data == IF form = "base64" THEN Base64(codec.memo) ELSE codec.memo
       IN codec' = [codec EXCEPT !.pc = "extracted", !.decoder = decoder, !.data = data,
                                 !.out = Decode(decoder, extractMemoFromTx(RawTx(data)))]
  /\ UNCHANGED <<now, writeSide, otherSide, feedSide, tally>>

\* the client puts the decoded event in the feed page or the likes map
CodecSurface ==
  /\ codec.pc = "decoded"
  /\ Surfaces(codec.decoder, codec.out)
  /\ codec' = [codec EXCEPT !.pc = "surfaced"]
  /\ UNCHANGED <<now, writeSide, otherSide, feedSide, tally>>

CodecReset ==
  /\ codec.pc \in {"decoded", "extracted", "surfaced"}
  /\ codec' = CodecIdle
  /\ UNCHANGED <<now, writeSide, otherSide, feedSide, tally>>

InitCodec ==
  /\ now = StartMs
  /\ WriteAtRest
  /\ FeedAtRest
  /\ codec = CodecIdle
  /\ tally = TallyIdle
  /\ OtherAtRest

NextCodec ==
  \/ CodecPublish \/ CodecForeign \/ CodecDecode \/ CodecExtract \/ CodecAgain \/ CodecSurface
  \/ CodecReset

SpecCodec == InitCodec /\ [][NextCodec]_vars

\* ------------------------------------------------------------------------
\* Likes: publishLike (registry.ts) and the two tallies (fetchLikes.ts and
\* the feed builder, src/unnamed/part_003)
\* ------------------------------------------------------------------------
\* Math.max(1, Math.floor(opts.lamports ?? (opts.superlike ? SUPERLIKE_LAMPORTS : LIKE_LAMPORTS)))
LikeTotal(opts) ==
  LET n == IF opts.lamports = NoParam
           THEN (IF opts.superlike THEN SUPERLIKE_LAMPORTS ELSE LIKE_LAMPORTS)
           ELSE opts.lamports
  IN IF n < 1 THEN 1 ELSE n

\* Math.max(1, Math.floor((total * LIKE_FEE_BPS) / 10_000))
LikeFee(total) ==
  IF (total * LIKE_FEE_BPS) \div BPS_DENOMINATOR < 1 THEN 1
  ELSE (total * LIKE_FEE_BPS) \div BPS_DENOMINATOR

\* Math.max(0, total - fee)
ToCreator(total) == IF total - LikeFee(total) < 0 THEN 0 ELSE total - LikeFee(total)

\* { v: 1, t: "like", id: opts.id, c: payer, amt: total, x: opts.superlike ? 1 : undefined }
LikePayload(opts, payer) ==
  Obj([v |-> Num(1), t |-> Str(LIKE), id |-> opts.id, c |-> payer,
       amt |-> Num(LikeTotal(opts)), x |-> IF opts.superlike THEN Num(1) ELSE Undef])

\* the transaction publishLike sends: the memo, the fee to the owner and,
\* when it is more than 0, the tip to the creator
LikeTx(opts, payer) ==
  [memo |-> encodeMemo(LikePayload(opts, payer)),
   fee |-> LikeFee(LikeTotal(opts)),
   tip |-> ToCreator(LikeTotal(opts)),
   creator |-> opts.creator]

\* fetchLikes.ts: counts[j.id] bumped for every memo that passes its test
LikeCounts(txs) ==
  LET liked == {i \in DOMAIN txs : IsLike(txs[i].memo)}
      ids == {Get(safeJson(txs[i].memo), "id") : i \in liked}
  IN [id \in ids |->
        Num(Cardinality({i \in liked : Get(safeJson(txs[i].memo), "id") = id}))]

\* part_003: the events it keeps of the memos (v 1, a post or a like), a
\* like with `to` carrying the lamports that account gained
BuilderEvent(tx) ==
  LET j == safeJson(tx.memo)
  IN [keep |-> Get(j, "v") = Num(1) /\ Get(j, "t") \in {Str(POST), Str(LIKE)},
      type |-> Get(j, "t"),
      cid |-> Get(j, "cid"),
      tipLamports |-> IF Get(j, "t") = Str(LIKE) /\ Get(j, "to") = tx.creator /\ tx.tip > 0
                      THEN tx.tip ELSE 0]

RECURSIVE SumTips(_, _)
SumTips(events, among) ==
  IF among = {} THEN 0
  ELSE LET i == CHOOSE i \in among : TRUE
       IN events[i].tipLamports + SumTips(events, among \ {i})

\* part_003: tally of the like events that carry a cid
BuilderTally(txs) ==
  LET events == [i \in DOMAIN txs |-> BuilderEvent(txs[i])]
      liked == {i \in DOMAIN txs : /\ events[i].keep
                                   /\ events[i].type = Str(LIKE)
                                   /\ events[i].cid.ty = "string"
                                   /\ events[i].cid.s # <<>>}
      cids == {events[i].cid : i \in liked}
  IN [cid \in cids |->
        LET mine == {i \in liked : events[i].cid = cid}
        IN Obj([likes |-> Num(Cardinality(mine)),
                tipLamports |-> Num(SumTips(events, mine))])]

ContentIds == {Str(<<"X">>), Str(<<"Y">>)}
Author == Str(<<"A", "u">>)
LikeOpts ==
  { [id |-> id, creator |-> Author, lamports |-> n, superlike |-> x] :
      id \in ContentIds, n \in {NoParam, 1}, x \in BOOLEAN }

\* memos of other writers on the registry, among them a like in the form
\* the feed builder reads
OtherTxs ==
  { [memo |-> PostMemo, fee |-> 0, tip |-> 0, creator |-> Author],
    [memo |-> NotJson(0), fee |-> 0, tip |-> 0, creator |-> Author],
    [memo |-> Json(Obj([v |-> Num(1), t |-> Str(LIKE), cid |-> Str(<<"X">>), to |-> Author])),
     fee |-> 0, tip |-> 4500, creator |-> Author] }

\* publishLike lands a like on the registry
TallyLike ==
  /\ tally.pc = "idle"
  /\ Len(tally.txs) < MaxLikes
  /\ \E opts \in LikeOpts :
       tally' = [tally EXCEPT !.txs = Append(@, LikeTx(opts, SampleCreator))]
  /\ UNCHANGED <<now, writeSide, otherSide, feedSide, codec>>

\* another writer's transaction lands on the registry
TallyOther ==
  /\ tally.pc = "idle"
  /\ Len(tally.txs) < MaxLikes
  /\ \E tx \in OtherTxs : tally' = [tally EXCEPT !.txs = Append(@, tx)]
  /\ UNCHANGED <<now, writeSide, otherSide, feedSide, codec>>

\* the active registry lists of the like-count endpoint: the registry "R"
\* the writers use, alone, or a manifest that lists the owner account as well
LikeRegistryLists == {<<"R">>, <<"R", OWNER_PK>>}

\* getSignaturesForAddress(r): the transactions that name r among their
\* accounts.  Every transaction here names the registry; the owner account
\* is named by those that pay it a fee
HistoryOf(txs, r) ==
  IF r = OWNER_PK THEN SelectSeq(txs, LAMBDA tx : tx.fee > 0) ELSE txs

\* the transactions of the sigLists, list after list
RECURSIVE SigLists(_, _)
SigLists(txs, regs) ==
  IF regs = <<>> THEN <<>> ELSE HistoryOf(txs, Head(regs)) \o SigLists(txs, Tail(regs))

\* the fetchLikes.ts handler answers: the counts, or 500 when a gateway call throws
FetchLikes ==
  /\ tally.pc = "idle"
  /\ \E ok \in BOOLEAN, regs \in LikeRegistryLists :
       tally' = [tally EXCEPT !.pc = "counted", !.by = "fetchLikes", !.regs = regs,
                              !.status = IF ok THEN 200 ELSE 500,
                              !.out = IF ok THEN LikeCounts(SigLists(tally.txs, regs))
                                      ELSE <<>>]
  /\ UNCHANGED <<now, writeSide, otherSide, feedSide, codec>>

\* the feed builder runs over the registry and tallies
BuildFeed ==
  /\ tally.pc = "idle"
  /\ tally' = [tally EXCEPT !.pc = "counted", !.by = "builder", !.status = 200,
                            !.out = BuilderTally(tally.txs)]
  /\ UNCHANGED <<now, writeSide, otherSide, feedSide, codec>>

TallyReset ==
  /\ tally.pc = "counted"
  /\ tally' = [tally EXCEPT !.pc = "idle", !.by = "", !.status = 0, !.out = <<>>,
                            !.regs = <<>>]
  /\ UNCHANGED <<now, writeSide, otherSide, feedSide, codec>>

\* the VITE_LIKE_FEE_BPS settings explored: unset, a hundredth of a percent,
\* the default 10%, 100% and 200%
FeeSettings == {0, 1, 1000, 10000, 20000}

InitTally ==
  /\ now = StartMs
  /\ WritersAtRest
  /\ cfg \in [WRITE_SHARDING : {TRUE}, PUBLISH_REGISTRY : {""}, LIKE_FEE_BPS : FeeSettings]
  /\ FeedAtRest
  /\ codec = CodecIdle
  /\ tally = TallyIdle
  /\ OtherAtRest

NextTally == TallyLike \/ TallyOther \/ FetchLikes \/ BuildFeed \/ TallyReset

SpecTally == InitTally /\ [][NextTally]_vars




\* ------------------------------------------------------------------------
\* The feed builder's cursor (src/unnamed/part_003)
\* ------------------------------------------------------------------------
MAX_BATCHES == 5
BUILDER_LIMIT == 100
\* the runs of the builder and the growths of the registry explored
MaxRuns == 3
MaxGrowths == 3
\* the numbers of transactions that may land between two runs
Growths == {1, BUILDER_LIMIT, MAX_BATCHES * BUILDER_LIMIT, MAX_BATCHES * BUILDER_LIMIT + 1}

\* the loop over getSignaturesForAddress(REGISTRY, { before, limit: 100 }),
\* from batch i on, with `hi` the newest signature not yet fetched: the
\* oldest signature pushed to newSigs (hi + 1 when none is pushed)
RECURSIVE PullFrom(_, _, _)
PullFrom(i, hi, cursor) ==
  IF i = MAX_BATCHES \/ hi < 1 THEN hi + 1
  ELSE LET lo == IF hi - BUILDER_LIMIT + 1 < 1 THEN 1 ELSE hi - BUILDER_LIMIT + 1
       IN IF cursor # 0 /\ cursor \in lo..hi THEN cursor + 1
          ELSE PullFrom(i + 1, lo - 1, cursor)

\* one run of the builder: the new signatures are pulled and their
\* transactions processed, and the cursor is set to the newest of them
BuilderRun ==
  /\ tally.pc = "idle"
  /\ tally.index.runs < MaxRuns
  /\ LET ix == tally.index
         oldest == PullFrom(0, ix.top, ix.cursor)
     IN tally' = [tally EXCEPT
                    !.index.runs = @ + 1,
                    !.index.done = IF oldest <= ix.top THEN Append(@, <<oldest, ix.top>>) ELSE @,
                    !.index.cursor = IF oldest <= ix.top THEN ix.top ELSE @,
                    !.index.base = IF ix.cursor = 0 /\ oldest <= ix.top THEN ix.top ELSE @,
                    !.index.at = ix.top]
  /\ UNCHANGED <<now, writeSide, otherSide, feedSide, codec>>

\* transactions land on the registry between two runs
RegistryGrows ==
  /\ tally.pc = "idle"
  /\ tally.index.grown < MaxGrowths
  /\ \E n \in Growths :
       tally' = [tally EXCEPT !.index.top = @ + n, !.index.grown = @ + 1]
  /\ UNCHANGED <<now, writeSide, otherSide, feedSide, codec>>

NextBuilder == BuilderRun \/ RegistryGrows

SpecBuilder == InitCodec /\ [][NextBuilder]_vars

\* ------------------------------------------------------------------------
\* The write pipeline: publish, the poller, the pool and the resolver
\* ------------------------------------------------------------------------
\* a transaction in the owner account's history as the scan sees it: its
\* memo, its block time, and the account that signed it
Manifest(ts, regs) ==
  [parses |-> TRUE, tag |-> MANIFEST_TAG, isArr |-> TRUE, registries |-> regs,
   blockTime |-> ts, signer |-> OWNER_PK]

\* the same memo in a transaction another account signed, with the owner
\* account among its keys (so that getSignaturesForAddress(OWNER_PK) lists it)
Forged(ts, regs) == [Manifest(ts, regs) EXCEPT !.signer = "MALLORY"]

WriteHists == { <<>>, <<Manifest(200, <<"A", "B">>)>>, <<Manifest(200, <<"bad">>)>> }

InitWrite ==
  /\ now = StartMs
  /\ \E n \in 1..NumEps : pool = FreshPool(n)
  /\ CACHED_URL = NoEp
  /\ lastCall = 0
  /\ pk = PkIdle
  /\ pub = PubIdle
  /\ cf = CfIdle
  /\ rs = RsIdle
  /\ reg = NoRegistries
  /\ hist \in WriteHists
  /\ cfg \in [WRITE_SHARDING : BOOLEAN, PUBLISH_REGISTRY : {""}, LIKE_FEE_BPS : {1000}]
  /\ env = FreshEnv
  /\ ReadAtRest
  /\ OtherAtRest

NextWrite ==
  \/ PublishStart \/ PublishPickThrown \/ PublishBlockhash
  \/ PublishRegistryThrown \/ PublishRegistry \/ PublishSign \/ PublishDone
  \/ PublishEnd \/ Idle
  \/ Probe
  \/ ConfirmPickThrown \/ ConfirmTried \/ ConfirmQuery
  \/ ResolveStart \/ ResolveEnd
  \/ ManifestPickThrown \/ ManifestSigs \/ TxPickThrown \/ TxFetch

SpecWrite == InitWrite /\ [][NextWrite]_vars

\* the steps of the poller and of the pickConn() it awaits: each is the
\* continuation of a timer or of a gateway call bounded by withTimeout, which
\* the event loop runs once it is due
PollerStep == Probe \/ ConfirmPickThrown \/ ConfirmTried \/ ConfirmQuery

SpecWriteFair == SpecWrite /\ WF_vars(PollerStep)

\* ------------------------------------------------------------------------
\* The resolver alone, over the histories the owner account may hold
\* ------------------------------------------------------------------------
HistEntries ==
  { [parses |-> FALSE, tag |-> "", isArr |-> FALSE, registries |-> <<>>, blockTime |-> 300,
     signer |-> OWNER_PK],
    [parses |-> TRUE, tag |-> "other.v1", isArr |-> TRUE, registries |-> <<"C">>, blockTime |-> 300,
     signer |-> OWNER_PK],
    [parses |-> TRUE, tag |-> MANIFEST_TAG, isArr |-> FALSE, registries |-> <<>>, blockTime |-> 300,
     signer |-> OWNER_PK],
    [parses |-> TRUE, tag |-> MANIFEST_TAG, isArr |-> TRUE, registries |-> <<>>, blockTime |-> 300,
     signer |-> OWNER_PK],
    Forged(300, <<"E">>),
    Manifest(100, <<"A">>),
    Manifest(200, <<"A", "B">>),
    Manifest(200, <<"C">>),
    Manifest(200, <<"bad", "B">>),
    Manifest(200, <<"B", "B">>),
    Manifest(100, <<"A", "B", "C", "D", "E">>),
    Manifest(0, <<"D">>) }

Hists == UNION { [1..n -> HistEntries] : n \in 0..MaxHist }

InitResolver ==
  /\ now = StartMs
  /\ \E n \in 1..NumEps : pool = FreshPool(n)
  /\ CACHED_URL = NoEp
  /\ lastCall = 0
  /\ pk = PkIdle
  /\ pub = PubIdle
  /\ cf = CfIdle
  /\ rs = RsIdle
  /\ reg = NoRegistries
  /\ hist \in Hists
  /\ cfg \in [WRITE_SHARDING : {TRUE}, PUBLISH_REGISTRY : {"", "R"}, LIKE_FEE_BPS : {1000}]
  /\ env = FreshEnv
  /\ ReadAtRest
  /\ OtherAtRest

NextResolver ==
  \/ ResolveStart \/ ResolveExplicit \/ ResolveEnd \/ Probe
  \/ ManifestPickThrown \/ ManifestSigs \/ TxPickThrown \/ TxFetch

SpecResolver == InitResolver /\ [][NextResolver]_vars

\* ------------------------------------------------------------------------
\* Overlapping user actions on registry.ts's pool: each caller runs its own
\* pickConn() (its own `now` and `order`) and may then call backoff(); the
\* calls interleave at their awaits and share pool and CACHED_URL
\* ------------------------------------------------------------------------
Callers == 1..NumCallers

Probing(c) == race.calls[c].pc = "probing"

\* withTimeout(..., 3500) ends the probe caller c is waiting for at this time
ProbeDeadline(c) == race.since[c] + PROBE_TIMEOUT_MS

\* the next moments at which something can happen: a gateway answer, a probe
\* timeout, the end of a cooldown; no probe outlives its timeout
RaceSteps ==
  { d \in {FastMs}
          \cup {ProbeDeadline(c) - now : c \in {k \in Callers : Probing(k)}}
          \cup {pool[e].cooldownUntil - now : e \in DOMAIN pool} :
      /\ d > 0
      /\ \A c \in Callers : Probing(c) => now + d <= ProbeDeadline(c) }

\* the attempt numbers the callers of backoff() pass, tries++ of the manifest
\* scan (0..3) and attempts of the poller (1..6): the two ends of the range
BackoffAttempts == {0, CONFIRM_ATTEMPTS}

\* a caller enters pickConn()
RaceEnter ==
  /\ race.entered < MaxRaceCalls
  /\ \E c \in Callers :
       /\ race.calls[c].pc = "idle"
       /\ race' = [race EXCEPT !.calls[c] = PickAt("race", pool, CACHED_URL, now),
                               !.since[c] = now,
                               !.entered = @ + 1]
  /\ UNCHANGED <<now, writeSide, readSide, fo, disc, sel>>

\* the probe a caller is waiting for answers or times out
RaceProbe ==
  /\ \E c \in Callers, o \in ProbeOutcomes :
       LET call == race.calls[c]
           ep == call.order[call.idx]
       IN /\ Probing(c)
          /\ o.res = "timeout" => now = ProbeDeadline(c)
          /\ Allowed(o)
          /\ env' = Charge(o)
          /\ IF o.res = "ok"
             THEN /\ CACHED_URL' = ep
                  /\ pool' = pool
                  /\ race' = [race EXCEPT !.calls[c] = [call EXCEPT !.pc = "ret", !.res = ep,
                                                                    !.probed = TRUE,
                                                                    !.onlyRate = FALSE]]
             ELSE LET p2 == ProbeFailed(pool, ep, call.now0, o.res)
                      i == NextCandidate(p2, call.order, call.idx + 1, call.now0)
                  IN /\ pool' = p2
                     /\ CACHED_URL' = CACHED_URL
                     /\ race' = [race EXCEPT
                                   !.calls[c] = [call EXCEPT
                                                   !.pc = IF i = 0 THEN "thrown" ELSE "probing",
                                                   !.idx = i,
                                                   !.failed = @ \cup {ep},
                                                   !.onlyRate = @ /\ o.res = "rate"],
                                   !.since[c] = now,
                                   !.at[ep] = now]
  /\ UNCHANGED <<now, lastCall, pk, pub, cf, rs, reg, hist, cfg, readSide, fo, disc, sel>>

\* the gateway call a caller made on the connection it got answers: on a 429
\* the caller calls backoff(ep, attempt); the poller then clears the cache,
\* the manifest scan clears it only after its third try
RaceQuery ==
  /\ \E c \in Callers, o \in SigsOutcomes, attempt \in BackoffAttempts, rotate \in BOOLEAN :
       LET ep == race.calls[c].res IN
       /\ race.calls[c].pc = "ret"
       /\ Allowed(o)
       /\ env' = Charge(o)
       /\ IF o.res = "ok"
          THEN /\ attempt = 0 /\ ~rotate
               /\ UNCHANGED <<pool, CACHED_URL>>
               /\ race' = [race EXCEPT !.calls[c] = PkIdle]
          ELSE /\ pool' = backoff(pool, ep, attempt, now)
               /\ CACHED_URL' = IF rotate THEN NoEp ELSE CACHED_URL
               /\ race' = [race EXCEPT !.calls[c] = PkIdle, !.at[ep] = now]
  /\ UNCHANGED <<now, lastCall, pk, pub, cf, rs, reg, hist, cfg, readSide, fo, disc, sel>>

\* pickConn() threw "No CORS-friendly RPC available" to its caller
RaceThrown ==
  /\ \E c \in Callers :
       /\ race.calls[c].pc = "thrown"
       /\ race' = [race EXCEPT !.calls[c] = PkIdle]
  /\ UNCHANGED <<now, writeSide, readSide, fo, disc, sel>>

\* time passes up to the next moment
RaceTick ==
  /\ race.ticks < MaxRaceTicks
  /\ \E d \in RaceSteps : now' = now + d
  /\ race' = [race EXCEPT !.ticks = @ + 1]
  /\ UNCHANGED <<writeSide, readSide, fo, disc, sel>>

InitRace ==
  /\ now = StartMs
  /\ \E n \in 1..NumEps : pool = FreshPool(n)
  /\ CACHED_URL = NoEp
  /\ lastCall = 0
  /\ pk = PkIdle
  /\ pub = PubIdle
  /\ cf = CfIdle
  /\ rs = RsIdle
  /\ reg = NoRegistries
  /\ hist = <<>>
  /\ cfg = [WRITE_SHARDING |-> TRUE, PUBLISH_REGISTRY |-> "", LIKE_FEE_BPS |-> 1000]
  /\ env = FreshEnv
  /\ ReadAtRest
  /\ race = RaceIdle
  /\ fo = FoIdle
  /\ disc = DiscIdle
  /\ sel = SelIdle

NextRace == RaceEnter \/ RaceProbe \/ RaceQuery \/ RaceThrown \/ RaceTick

SpecRace == InitRace /\ [][NextRace]_vars

\* ------------------------------------------------------------------------
\* solana.ts: withFailover.  Error messages are sequences of characters, so
\* that isRetryable's substring tests are computed as the code computes them.
\* ------------------------------------------------------------------------
\* the number of endpoints of rpcPool
NumRpcs == 3
\* withFailover's default for retries
FO_RETRIES == 2
FO_DELAY == 700
FO_DELAY_CAP == 6000
FO_JITTER == 300
FO_PAUSE == 15000
\* the withFailover calls explored
MaxFoCalls == 2

UpperCase ==
  <<"A", "B", "C", "D", "E", "F", "G", "H", "I", "J", "K", "L", "M",
    "N", "O", "P", "Q", "R", "S", "T", "U", "V", "W", "X", "Y", "Z">>
LowerCase ==
  <<"a", "b", "c", "d", "e", "f", "g", "h", "i", "j", "k", "l", "m",
    "n", "o", "p", "q", "r", "s", "t", "u", "v", "w", "x", "y", "z">>

\* String.prototype.toLowerCase
toLowerCase(str) ==
  [k \in DOMAIN str |->
     IF \E u \in DOMAIN UpperCase : UpperCase[u] = str[k]
     THEN LowerCase[CHOOSE u \in DOMAIN UpperCase : UpperCase[u] = str[k]]
     ELSE str[k]]

\* String.prototype.includes
includes(str, needle) ==
  \E k \in 0..(Len(str) - Len(needle)) : SubSeq(str, k + 1, k + Len(needle)) = needle

isRetryable(e) ==
  LET m == toLowerCase(e) IN
  \/ includes(m, <<"4", "2", "9">>)
  \/ includes(m, <<"r", "a", "t", "e">>)
  \/ includes(m, <<"f", "e", "t", "c", "h">>)
  \/ includes(m, <<"n", "e", "t", "w", "o", "r", "k">>)
  \/ includes(m, <<"t", "i", "m", "e", "o", "u", "t">>)
  \/ includes(m, <<"f", "o", "r", "b", "i", "d", "d", "e", "n">>)
  \/ includes(m, <<"4", "0", "3">>)

\* the messages of the errors the work can throw: the gateway's HTTP
\* refusals as "<status> <statusText>", a timed-out connection, a request
\* the browser blocked, and a request the gateway rejected as malformed
E429 == <<"4", "2", "9", " ", "T", "o", "o", " ", "M", "a", "n", "y", " ", "R", "e", "q", "u", "e", "s", "t", "s">>
E403 == <<"4", "0", "3", " ", "F", "o", "r", "b", "i", "d", "d", "e", "n">>
E401 == <<"4", "0", "1", " ", "U", "n", "a", "u", "t", "h", "o", "r", "i", "z", "e", "d">>
ETimeout == <<"C", "o", "n", "n", "e", "c", "t", " ", "T", "i", "m", "e", "o", "u", "t", " ", "E", "r", "r", "o", "r">>
EFetch == <<"F", "a", "i", "l", "e", "d", " ", "t", "o", " ", "f", "e", "t", "c", "h">>
EParams == <<"I", "n", "v", "a", "l", "i", "d", " ", "p", "a", "r", "a", "m", "s">>
HttpRefusals == {E429, E403, E401}
WorkErrors == {E429, E403, E401, ETimeout, EFetch, EParams}

rotateRpc(idx) == (idx + 1) % NumRpcs

\* withFailover is called: it waits out pauseUntil, then makes its first try
FoStart ==
  /\ fo.pc = "idle" /\ fo.calls < MaxFoCalls
  /\ now' = IF now < fo.pauseUntil THEN fo.pauseUntil ELSE now
  /\ fo' = [fo EXCEPT !.pc = "work", !.i = 0, !.delay = FO_DELAY, !.err = <<>>,
                      !.calls = @ + 1]
  /\ UNCHANGED <<writeSide, readSide, race, disc, sel>>

\* work(connection) returns
FoReturn ==
  /\ fo.pc = "work"
  /\ fo' = [fo EXCEPT !.pc = "returned"]
  /\ UNCHANGED <<now, writeSide, readSide, race, disc, sel>>

\* work(connection) throws e: the catch block
FoCatch ==
  /\ fo.pc = "work"
  /\ \E e \in WorkErrors, rnd \in {0, FO_JITTER - 1} :
       IF ~isRetryable(e) \/ fo.i = FO_RETRIES
       THEN /\ rnd = 0
            /\ fo' = [fo EXCEPT !.pc = "thrown", !.err = e]
       ELSE fo' = [fo EXCEPT !.pc = "sleep", !.err = e,
                             !.pauseUntil = IF includes(e, <<"4", "2", "9">>)
                                            THEN now + FO_PAUSE ELSE @,
                             !.rpcIndex = rotateRpc(@),
                             !.wake = now + fo.delay + rnd,
                             !.delay = IF fo.delay * 2 < FO_DELAY_CAP
                                       THEN fo.delay * 2 ELSE FO_DELAY_CAP]
  /\ UNCHANGED <<now, writeSide, readSide, race, disc, sel>>

\* the sleep ends and the loop makes its next try
FoWake ==
  /\ fo.pc = "sleep"
  /\ now' = fo.wake
  /\ fo' = [fo EXCEPT !.pc = "work", !.i = @ + 1]
  /\ UNCHANGED <<writeSide, readSide, race, disc, sel>>

\* the caller has the result or the error
FoEnd ==
  /\ fo.pc \in {"returned", "thrown"}
  /\ fo' = [fo EXCEPT !.pc = "idle"]
  /\ UNCHANGED <<now, writeSide, readSide, race, disc, sel>>

InitFailover ==
  /\ now = StartMs
  /\ WriteAtRest
  /\ ReadAtRest
  /\ race = RaceIdle
  /\ fo = FoIdle
  /\ disc = DiscIdle
  /\ sel = SelIdle

NextFailover == FoStart \/ FoReturn \/ FoCatch \/ FoWake \/ FoEnd

SpecFailover == InitFailover /\ [][NextFailover]_vars

\* ------------------------------------------------------------------------
\* solana.ts: withFailover calls that overlap
\* ------------------------------------------------------------------------
\* the calls and the time steps explored
MaxFoRaceCalls == 3
MaxFoTicks == 4

FoRaceErrors == {E429, ETimeout, EParams}

\* withFailover is called: it waits for pauseUntil when that is ahead, else
\* makes its first try on the current connection
FoRaceStart ==
  /\ fo.calls < MaxFoRaceCalls
  /\ \E c \in 1..NumFoCallers :
       /\ fo.ov[c].pc = "idle"
       /\ fo' = [fo EXCEPT !.calls = @ + 1,
                           !.ov[c] = IF now < fo.pauseUntil
                                     THEN [FoCallIdle EXCEPT !.pc = "paused", !.delay = FO_DELAY,
                                                             !.wake = fo.pauseUntil]
                                     ELSE [FoCallIdle EXCEPT !.pc = "work", !.delay = FO_DELAY,
                                                             !.on = fo.rpcIndex, !.since = now]]
  /\ UNCHANGED <<now, writeSide, readSide, race, disc, sel>>

\* a timer of a call fires: the wait for pauseUntil or the sleep before a
\* retry is over, and work(connection) is called with the connection of
\* that moment
FoRaceResume ==
  /\ \E c \in 1..NumFoCallers :
       /\ fo.ov[c].pc \in {"paused", "sleep"}
       /\ now >= fo.ov[c].wake
       /\ fo' = [fo EXCEPT !.ov[c].pc = "work",
                           !.ov[c].i = IF fo.ov[c].pc = "sleep" THEN @ + 1 ELSE @,
                           !.ov[c].on = fo.rpcIndex,
                           !.ov[c].since = now]
  /\ UNCHANGED <<now, writeSide, readSide, race, disc, sel>>

\* work(connection) of a call returns, and so does the call; a gateway
\* takes some time to answer
FoRaceReturn ==
  /\ \E c \in 1..NumFoCallers :
       /\ fo.ov[c].pc = "work"
       /\ now > fo.ov[c].since
       /\ fo' = [fo EXCEPT !.ov[c] = FoCallIdle]
  /\ UNCHANGED <<now, writeSide, readSide, race, disc, sel>>

\* work(connection) of a call throws e: the catch block, which throws e or
\* sets the pause, rotates and sleeps
FoRaceCatch ==
  /\ \E c \in 1..NumFoCallers, e \in FoRaceErrors, rnd \in {0, FO_JITTER - 1} :
       /\ fo.ov[c].pc = "work"
       /\ now > fo.ov[c].since
       /\ IF ~isRetryable(e) \/ fo.ov[c].i = FO_RETRIES
          THEN /\ rnd = 0
               /\ fo' = [fo EXCEPT !.ov[c] = FoCallIdle]
          ELSE fo' = [fo EXCEPT !.pauseUntil = IF includes(e, <<"4", "2", "9">>)
                                               THEN now + FO_PAUSE ELSE @,
                                !.rpcIndex = rotateRpc(@),
                                !.ov[c].pc = "sleep",
                                !.ov[c].failedOn = fo.ov[c].on,
                                !.ov[c].wake = now + fo.ov[c].delay + rnd,
                                !.ov[c].delay = IF fo.ov[c].delay * 2 < FO_DELAY_CAP
                                                THEN fo.ov[c].delay * 2 ELSE FO_DELAY_CAP]
  /\ UNCHANGED <<now, writeSide, readSide, race, disc, sel>>

\* the calls that wait for a timer
FoWaiting == {c \in 1..NumFoCallers : fo.ov[c].pc \in {"paused", "sleep"}}

\* time passes, up to the next timer that is due: a timer fires when its
\* time has come
FoRaceTick ==
  /\ fo.ticks < MaxFoTicks
  /\ \E d \in {FastMs, FO_PAUSE} \cup {fo.ov[c].wake - now : c \in FoWaiting} :
       /\ d > 0
       /\ \A c \in FoWaiting : now + d <= fo.ov[c].wake
       /\ now' = now + d
  /\ fo' = [fo EXCEPT !.ticks = @ + 1]
  /\ UNCHANGED <<writeSide, readSide, race, disc, sel>>

NextFailoverRace ==
  FoRaceStart \/ FoRaceResume \/ FoRaceReturn \/ FoRaceCatch \/ FoRaceTick

SpecFailoverRace == InitFailover /\ [][NextFailoverRace]_vars

\* ------------------------------------------------------------------------
\* discover.ts: fetchPage read straight from the gateway, and loadMore
\* ------------------------------------------------------------------------
PAGE_SIZE == 12
TX_CHUNK == 6
\* the loadMore calls explored
MaxPages == 3

\* a registry history with `k` likes of one meme on top of it
LikeBurst(led, k) ==
  [j \in 1..k |-> [sig |-> led[1].sig + k + 1 - j, slot |-> led[1].slot + k + 1 - j,
                   blockTime |-> FirstTime + led[1].slot, memo |-> "like"]] \o led

\* list.slice(i, i + TX_CHUNK): the number of the chunk that holds list[i]
ChunkOf(i) == (i - 1) \div TX_CHUNK + 1

\* what fetchPage(before, limit) returns when the chunks in `lost` were
\* given up (the catch block's break): the decoded events, newest first
PageOut(led, sigs, lost) ==
  LET idx == [i \in 1..Len(sigs) |-> i]
      Kept(i) == /\ ChunkOf(i) \notin lost
                 /\ tryParsePayload(TxOf(led, sigs[i].sig).memo) # Null
      kept == SelectSeq(idx, Kept)
  IN SortBySlot([i \in DOMAIN kept |->
                   [sig |-> sigs[kept[i]].sig, slot |-> sigs[kept[i]].slot]])

\* the calls that find loadMore busy
MaxIgnored == 1

\* a loadMore without the flag
NeverBusy(d) == FALSE
\* if (loading) return;
Busy(d) == d.loading
\* s without its k-th element
Without(q, k) == SubSeq(q, 1, k - 1) \o SubSeq(q, k + 1, Len(q))

\* loadMore() is called (at page load, or by a click on the button): it
\* returns at once when a call is in progress, else it sets `loading` and
\* calls fetchPage(lastSig, PAGE_SIZE)
LoadMore ==
  /\ IF Busy(disc)
     THEN /\ disc.ignored < MaxIgnored
          /\ disc' = [disc EXCEPT !.ignored = @ + 1]
     ELSE /\ disc.pages < MaxPages
          /\ disc' = [disc EXCEPT !.loading = TRUE, !.pages = @ + 1,
                                  !.inflight = Append(@, disc.lastSig)]
  /\ UNCHANGED <<now, writeSide, readSide, race, fo, sel>>

\* fetchPage settles and loadMore runs to its end: "No more" on an empty
\* page, else lastSig = page[page.length - 1].sig and the cards are appended;
\* "error" is pickConn or getSignaturesForAddress throwing, which loadMore
\* catches; `finally` clears `loading`
LoadMoreSettle ==
  /\ \E k \in DOMAIN disc.inflight, o \in {"ok", "error"} :
       IF o = "error"
       THEN disc' = [disc EXCEPT !.status = "error",
                                 !.earlier = @ \cup disc.considered,
                                 !.considered = {},
                                 !.loading = FALSE,
                                 !.inflight = Without(@, k)]
       ELSE LET sigs == SignaturesBefore(ledger, disc.inflight[k], PAGE_SIZE)
            IN \E lost \in SUBSET {ChunkOf(i) : i \in 1..Len(sigs)} :
                 LET page == PageOut(ledger, sigs, lost)
                 IN disc' = [disc EXCEPT
                               !.lastSig = IF page = <<>> THEN @ ELSE page[Len(page)].sig,
                               !.noMore = (page = <<>>),
                               !.status = "ok",
                               !.considered = {sigs[i].sig : i \in 1..Len(sigs)},
                               !.earlier = @ \cup disc.considered,
                               !.dropped = @ + Cardinality(lost),
                               !.grid = @ \o [i \in DOMAIN page |-> page[i].sig],
                               !.log = IF page = <<>> THEN @ ELSE Append(@, disc.inflight[k]),
                               !.loading = FALSE,
                               !.inflight = Without(@, k)]
  /\ UNCHANGED <<now, writeSide, readSide, race, fo, sel>>

InitDiscover ==
  /\ now = StartMs
  /\ WriteAtRest
  /\ codec = CodecIdle
  /\ tally = TallyIdle
  /\ ledger \in {LedgerOf(n) : n \in 1..LargeLedger}
                  \cup {LikeBurst(LedgerOf(SmallLedger), PAGE_SIZE)}
  /\ spool = FreshFeedPool(1)
  /\ charged = [e \in 1..1 |-> [prev |-> 0, last |-> 0]]
  /\ lastCallAt = 0
  /\ srv = SrvIdle
  /\ client = ClientIdle
  /\ legacy = LegacyIdle
  /\ fenv = FreshFeedEnv
  /\ OtherAtRest

NextDiscover == LoadMore \/ LoadMoreSettle \/ LedgerAppend

SpecDiscover == InitDiscover /\ [][NextDiscover]_vars

\* ------------------------------------------------------------------------
\* discover.ts: the like buttons of the feed read through the serverless API
\* ------------------------------------------------------------------------
\* the cards in the grid before its last page, and the clicks explored
MaxCards == 2
MaxClicks == 2

\* the pages the feed endpoint may deliver: the content ids of their cards
CardPages == {<<"X">>, <<"Y">>, <<"X", "Y">>}
\* the maps the like-count endpoint may deliver
ServerLikes == {<<>>, [id \in {"X"} |-> 3]}

\* likesMap[id] || 0
CountOf(map, id) == IF id \in DOMAIN map THEN map[id] ELSE 0
\* bumpLike(id) done n times: likesMap[id] = (likesMap[id] || 0) + 1
bumpLike(map, id, n) ==
  [k \in DOMAIN map \cup {id} |-> IF k = id THEN CountOf(map, id) + n ELSE map[k]]
\* Object.assign(likesMap, m)
Assign(map, from) ==
  [k \in DOMAIN map \cup DOMAIN from |-> IF k \in DOMAIN from THEN from[k] ELSE map[k]]

\* window.addEventListener("stonky:liked", ...) of initDiscoverFeed
LikedListeners == 1
\* the bumpLike calls that follow one publishLike that succeeded: one by
\* each "stonky:liked" listener, which publishLike's event reaches before it
\* returns, and one by the click listener that awaited publishLike
BumpsPerLike == LikedListeners + 1

\* loadMore gets a page: the cards are appended, every like button of the
\* grid gets a click listener, and renderCountsFor loads the map when it is
\* empty
CardsLoaded ==
  /\ Len(disc.cards) < MaxCards
  /\ \E page \in CardPages, m \in ServerLikes :
       LET wired == [i \in DOMAIN disc.cards |->
                       [disc.cards[i] EXCEPT !.listeners = @ + 1]]
           added == [i \in DOMAIN page |-> [id |-> page[i], listeners |-> 1]]
       IN disc' = [disc EXCEPT !.cards = wired \o added,
                               !.likesMap = IF DOMAIN disc.likesMap = {}
                                            THEN Assign(@, m) ELSE @]
  /\ UNCHANGED <<now, writeSide, readSide, race, fo, sel>>

\* a click on the like button of a card: each of its click listeners awaits
\* a publishLike of its own; `ok` of them succeed, the others are rejected
\* (the catch block of the listener)
LikeClick ==
  /\ disc.clicks < MaxClicks
  /\ \E i \in DOMAIN disc.cards :
       \E ok \in 0..disc.cards[i].listeners :
         disc' = [disc EXCEPT !.clicks = @ + 1,
                              !.liked = @ \o [k \in 1..ok |-> disc.cards[i].id],
                              !.likesMap = IF ok = 0 THEN @
                                           ELSE bumpLike(@, disc.cards[i].id,
                                                         ok * BumpsPerLike)]
  /\ UNCHANGED <<now, writeSide, readSide, race, fo, sel>>

NextLikeButtons == CardsLoaded \/ LikeClick

SpecLikeButtons == InitDiscover /\ [][NextLikeButtons]_vars

\* ------------------------------------------------------------------------
\* selectRegistryForWrite over the registry lists and the times of day
\* ------------------------------------------------------------------------
\* the time steps explored
MaxSelTicks == 4

\* the lists getActiveRegistries() may hand to the writers: one to three
\* registries, no address twice
RegLists ==
  { l \in UNION { [1..n -> {"A", "B", "C"}] : n \in 1..3 } :
      \A i, j \in DOMAIN l : l[i] = l[j] => i = j }

\* a writer calls selectRegistryForWrite(): getActiveRegistries() answers
\* the shared list from its cache, then Date.now() is read
SelectCall ==
  /\ \E w \in 1..NumWriters :
       /\ sel.out[w].at = 0
       /\ sel' = [sel EXCEPT !.out[w] = [reg |-> selectRegistryForWrite(sel.regs, now),
                                         at |-> now]]
  /\ UNCHANGED <<now, writeSide, readSide, race, fo, disc>>

\* time passes: a moment, half a bucket, a bucket
SelectTick ==
  /\ sel.ticks < MaxSelTicks
  /\ \E d \in {IdleMs, BUCKET_MS \div 2, BUCKET_MS} : now' = now + d
  /\ sel' = [sel EXCEPT !.ticks = @ + 1]
  /\ UNCHANGED <<writeSide, readSide, race, fo, disc>>

InitSelect ==
  /\ now = StartMs
  /\ \E n \in 1..1 : pool = FreshPool(n)
  /\ CACHED_URL = NoEp
  /\ lastCall = 0
  /\ pk = PkIdle
  /\ pub = PubIdle
  /\ cf = CfIdle
  /\ rs = RsIdle
  /\ reg = NoRegistries
  /\ hist = <<>>
  /\ cfg \in [WRITE_SHARDING : BOOLEAN, PUBLISH_REGISTRY : {""}, LIKE_FEE_BPS : {1000}]
  /\ env = FreshEnv
  /\ ReadAtRest
  /\ race = RaceIdle
  /\ fo = FoIdle
  /\ disc = DiscIdle
  /\ \E l \in RegLists : sel = [SelIdle EXCEPT !.regs = l]

NextSelect == SelectCall \/ SelectTick

SpecSelect == InitSelect /\ [][NextSelect]_vars

\* ------------------------------------------------------------------------
\* Properties
\* ------------------------------------------------------------------------

\* C1: when pickConn() returns the endpoint whose probe succeeded after the
\* probes of the endpoints before it failed, it returns that endpoint and
\* every endpoint whose probe failed has cooldownUntil strictly greater than
\* the current time.  (Violated: the cooldown is counted from the time
\* pickConn() was entered, and a probe may take longer than the cooldown.)
C1_FailedProbesCoolAtReturn ==
  (pk.pc = "ret" /\ pk.probed /\ pk.failed # {}) =>
    /\ pk.res = pk.order[pk.idx]
    /\ \A e \in pk.failed : pool[e].cooldownUntil > now

C10_RateLimitedRunEndsExhausted ==
  (cf.pc \in {"confirmed", "exhausted", "thrown"} /\ cf.onlyRate /\ cf.answers >= 1) =>
    cf.pc = "exhausted"

\* the scanned entries that count as manifests: fetched, parsed, tag-matching,
\* with a non-empty registries array
ScannedManifests ==
  { i \in 1..Len(reg.scanned) :
      /\ reg.scanned[i]
      /\ SigList[i].parses /\ SigList[i].tag = MANIFEST_TAG
      /\ SigList[i].isArr /\ Len(SigList[i].registries) > 0 }

\* those of them with the highest transaction timestamp
NewestManifests ==
  { i \in ScannedManifests :
      \A k \in ScannedManifests : SigList[k].blockTime <= SigList[i].blockTime }

\* C8 (as stated): the resolver's answer is the registries list of the
\* tag-matching manifest with the highest transaction timestamp, whatever
\* the scan order.
C8_NewestManifestAnyOrder ==
  reg.loaded => \A i \in NewestManifests : reg.active = SigList[i].registries

\* C8 (amended): the answer comes from the first scanned of the manifests
\* with the highest timestamp; it is that manifest's valid addresses, cut
\* to MAX_REGISTRIES, or the fallback registry when no manifest is found or
\* none of its addresses is valid.  Unparseable, mismatched and empty
\* entries never contribute.
C8_FirstNewestManifestNormalised ==
  reg.loaded =>
    IF NewestManifests = {} THEN reg.active = <<REGISTRY_FALLBACK>>
    ELSE LET i == CHOOSE k \in NewestManifests : \A m \in NewestManifests : k <= m
             ok == SelectSeq(SigList[i].registries, LAMBDA r : r \in Addresses)
         IN IF ok = <<>> THEN reg.active = <<REGISTRY_FALLBACK>>
            ELSE reg.active = SubSeq(ok, 1, Min(MAX_REGISTRIES, Len(ok)))

\* a newer manifest scanned after an older one was chosen
C8_Witness ==
  /\ reg.loaded
  /\ \E i, k \in ScannedManifests :
       /\ i < k /\ SigList[k].blockTime > SigList[i].blockTime
       /\ k \in NewestManifests
       /\ reg.active = SigList[k].registries

\* C2: for every endpoint of the feed function's pool, the cooldown charged
\* by a failure is at least the cooldown charged by the failure before it in
\* the same run of consecutive failures (probe failures of pickConn and
\* penalties of penalize alike), and no cooldown exceeds the ceiling of 60 s.
C2_CooldownNonDecreasingAndCapped ==
  \A e \in DOMAIN charged :
    /\ charged[e].prev <= charged[e].last
    /\ charged[e].last <= PENALTY_CAP

\* C3: over a registry whose history holds at least 2 x limit transactions,
\* two consecutive pages, the second fetched with the cursor the first
\* returned, have no signature in common; for the callers of both feed
\* functions.
C3_ConsecutivePagesDisjoint ==
  /\ Len(ledger) >= 2 * ParseLimit(client.q) => client.prev \cap client.last = {}
  /\ Len(ledger) >= 2 * LegacyLimit(legacy.q) => legacy.prev \cap legacy.last = {}

\* two events are equal when they agree on every field of a Publish event;
\* a field left out and a field that is undefined are the same
EventFields == {"v", "t", "k", "l", "wm", "c"}
SameEvent(a, b) ==
  /\ a.ty = "object" /\ b.ty = "object"
  /\ \A key \in EventFields : Get(a, key) = Get(b, key)

\* the caps of a Publish event and the event cut to them
IsPublishEvent(e) ==
  /\ Get(e, "v") = Num(1) /\ Get(e, "t") = Str(API)
  /\ Get(e, "k").ty = "string" /\ Get(e, "c").ty = "string"
  /\ Get(e, "wm").ty \in {"string", "undefined"}
  /\ Get(e, "l").ty = "array"
  /\ \A i \in DOMAIN Get(e, "l").a : Get(e, "l").a[i].ty = "string"
WithinCaps(e) ==
  /\ Len(Get(e, "k").s) <= 64
  /\ Get(e, "wm") # Undef => Len(Get(e, "wm").s) <= 64
  /\ Len(Get(e, "c").s) <= 64
  /\ Len(Get(e, "l").a) <= 6
  /\ \A i \in DOMAIN Get(e, "l").a : Len(Get(e, "l").a[i].s) <= 140
Cut(v, n) == IF v = Undef THEN Undef ELSE Str(SubSeq(v.s, 1, Min(n, Len(v.s))))
Truncated(e) ==
  LET l == Get(e, "l").a
  IN Obj([v |-> Get(e, "v"), t |-> Get(e, "t"),
          k |-> Cut(Get(e, "k"), 64),
          l |-> Arr([i \in 1..Min(6, Len(l)) |-> Cut(l[i], 140)]),
          wm |-> Cut(Get(e, "wm"), 64),
          c |-> Get(e, "c")])

\* C4: a Publish event E within the caps, with or without a watermark, that
\* is encoded by encodePayload and decoded by tryParsePayload comes back
\* equal to E.
C4_RoundTripWithinCaps ==
  ( /\ codec.pc = "decoded"
    /\ codec.variant = "discover"
    /\ codec.decoder = "tryParsePayload"
    /\ IsPublishEvent(codec.E)
    /\ WithinCaps(codec.E) )
  => SameEvent(codec.out, codec.E)

\* C5: for an event E over a cap, the memo the publish path writes carries
\* the truncated event E', and encoding E' again decodes to E'.
C5_PublishWritesTruncated ==
  ( /\ codec.pc = "written"
    /\ codec.variant \in Variants
    /\ IsPublishEvent(codec.E)
    /\ ~WithinCaps(codec.E) )
  => /\ SameEvent(tryParsePayload(codec.memo), Truncated(codec.E))
     /\ SameEvent(tryParsePayload(encodePayload(Truncated(codec.E))), Truncated(codec.E))

\* a well-formed event: JSON, an object, version 1, and the fields of its kind
WellFormed(memoStr) ==
  /\ Parses(memoStr)
  /\ Get(memoStr.val, "v") = Num(1)
  /\ Get(memoStr.val, "c").ty = "string"
  /\ \/ /\ Get(memoStr.val, "t") = Str(API)
        /\ Get(memoStr.val, "k").ty = "string"
        /\ Get(memoStr.val, "l").ty = "array"
     \/ /\ Get(memoStr.val, "t") = Str(LIKE)
        /\ Get(memoStr.val, "id").ty = "string"
        /\ Get(memoStr.val, "amt").ty = "number"

\* C6: a memo that is not a well-formed event is decoded to null by every
\* decoder, so its transaction is skipped.
C6_MalformedDecodesToNull ==
  (codec.pc = "decoded" /\ ~WellFormed(codec.memo)) => codec.out = Null

\* the Like events for a content id, and the sum of (amount - fee) over them
\* with fee = max(1, floor(amount * feeBps / 10000))
LikesFor(txs, id) ==
  {i \in DOMAIN txs : IsLike(txs[i].memo) /\ Get(safeJson(txs[i].memo), "id") = id}
NetOfFee(amount) ==
  amount - (IF (amount * 1000) \div 10000 < 1 THEN 1 ELSE (amount * 1000) \div 10000)
RECURSIVE NetSum(_, _)
NetSum(txs, among) ==
  IF among = {} THEN 0
  ELSE LET i == CHOOSE i \in among : TRUE
       IN NetOfFee(Get(safeJson(txs[i].memo), "amt").n) + NetSum(txs, among \ {i})

\* what a reader of a tally entry finds as its likes and as its tip sum
LikesOf(entry) == IF entry.ty = "number" THEN entry ELSE Get(entry, "likes")
TipSumOf(entry) ==
  IF Get(entry, "tipSum") # Undef THEN Get(entry, "tipSum") ELSE Get(entry, "tipLamports")

\* C7: the tally gives, for each content id that has Like events, likes = the
\* number of those events (a like and a superlike count one each) and
\* tipSum = the sum of amount - fee over them; 5000, 5000 and 50000 at 10%
\* give likes 3 and tipSum 54000.
C7_TallyLikesAndTipSum ==
  (tally.pc = "counted" /\ tally.status = 200)
  => \A id \in ContentIds :
       LikesFor(tally.txs, id) # {}
       => /\ id \in DOMAIN tally.out
          /\ LikesOf(tally.out[id]) = Num(Cardinality(LikesFor(tally.txs, id)))
          /\ TipSumOf(tally.out[id]) = Num(NetSum(tally.txs, LikesFor(tally.txs, id)))

\* C11: once the signer (or the gateway, for a raw submission) has accepted
\* the transaction and the signature is in hand, the writer has returned it:
\* it is never found still waiting while the confirmation poller has not
\* reached a terminal state.  (Violated: every writer awaits
\* confirmSignatureSmart(sig) before "return sig".)
C11_ReturnsWithoutWaitingForPoller ==
  (pub.sig # "" /\ cf.pc \notin {"confirmed", "exhausted", "thrown"}) => pub.pc = "done"

\* C12: a writer (publishMemeApi or publishLike) called with no wallet, or
\* with a wallet that has no public key, is rejected with "Connect wallet
\* first" in its first step: no endpoint is probed or cached, no time passes,
\* no blockhash or registry is fetched, nothing is signed, the poller does
\* not run, and the call never goes on to another attempt.
C12_NoSignerFailsAtOnce ==
  /\ [](pub.pc # "idle" /\ pub.provider \in {"none", "noKey"} =>
          /\ pub.pc = "rejected"
          /\ pub.err = "Connect wallet first"
          /\ pub.sig = "" /\ pub.reg = "" /\ pub.signer = ""
          /\ cf = CfIdle)
  /\ [][(pub.pc = "idle" /\ pub'.pc # "idle" /\ pub'.provider \in {"none", "noKey"}) =>
          UNCHANGED <<now, pool, CACHED_URL, lastCall, pk, rs, reg>>]_vars

C12_Witness ==
  /\ pub.pc = "rejected" /\ pub.provider = "noKey" /\ pub.op = "like"
  /\ pub.err = "Connect wallet first"

\* C13: a rate limit or timeout answered by the gateway to a read made by a
\* publish or by a registry resolution is absorbed: a writer that has not
\* reached the signer is rejected only for a missing wallet (or with the
\* pool's own "no endpoint" error), and getActiveRegistries() is rejected only
\* with the pool's own error, never with the gateway's.  (Violated: the
\* blockhash fetch of the writers and the signature listing of the manifest
\* scan have no handler.)
C13_TransientFaultsAbsorbed ==
  /\ (pub.pc = "rejected" /\ pub.signer = "") =>
       pub.err \in {"Connect wallet first", NoEndpoint}
  /\ rs.pc = "thrown" => rs.err = NoEndpoint

\* C14: a page request that has reached the fetch of the transaction bodies
\* completes with a page (status 200), whatever the gateway answers to the
\* body fetches, after at most FEED_MAX_TRIES retries of one fetch.
\* (Violated: a fourth 429, or a timeout at once, is thrown to the handler,
\* which answers 429 or 500 with no items.)
C14_BodyFaultSkipsOneTransaction ==
  /\ [](srv.tries <= FEED_MAX_TRIES)
  /\ [][(srv.pc = "bodies" /\ srv'.pc = "idle") => client'.status = 200]_vars

\* C15: every event the client surfaces, in a feed page (from the gateway
\* scan or from the feed endpoint) or in the likes map, comes from a memo
\* that is a well-formed event: version 1, a known kind, and every required
\* field of that kind.  (Violated: the feed function, the likes function and
\* fetchPageFromApi never look at the version, and no decoder looks at the
\* creator.)
C15_SurfacedEventsValidated ==
  codec.pc = "surfaced" => WellFormed(codec.memo)

\* C16: with pickConn() and backoff() calls of several callers interleaved
\* on the shared pool, the pool keeps every endpoint, every cooldownUntil is
\* at most the time of the endpoint's last penalty plus the ceiling of 60 s,
\* and so a pickConn() entered one ceiling from now finds an endpoint to
\* probe.
C16_RacesNeverEmptyThePool ==
  /\ [][DOMAIN pool' = DOMAIN pool]_vars
  /\ [](\A e \in DOMAIN pool :
          pool[e].cooldownUntil <= race.at[e] + BACKOFF_COOLDOWN_CAP)
  /\ [](NextCandidate(pool, SortPool(pool), 1, now + BACKOFF_COOLDOWN_CAP) # 0)

\* two overlapping pickConn() calls have both penalized the same endpoint
C16_Witness ==
  \E e \in DOMAIN pool :
    /\ e \in race.calls[1].failed \cap race.calls[2].failed
    /\ pool[e].failScore >= 2
    /\ pool[e].cooldownUntil > now

\* the ledger with every operation issued once: a transaction that repeats
\* an earlier one (same memo, same transfers) is left out
Once(txs) ==
  LET first == {i \in DOMAIN txs : \A j \in 1..(i - 1) : txs[j] # txs[i]}
  IN [k \in 1..Cardinality(first) |->
        txs[CHOOSE i \in first : Cardinality({j \in first : j < i}) = k - 1]]

\* the lamports the transactions move to the owner and to the creators
RECURSIVE Lamports(_)
Lamports(txs) ==
  IF txs = <<>> THEN 0 ELSE Head(txs).fee + Head(txs).tip + Lamports(Tail(txs))

\* C17: issuing an operation again has no further effect: the like counts
\* read from the ledger, and the lamports transferred, are those of the
\* ledger on which every operation was issued once.  (Violated: every
\* publishLike call lands a transaction of its own, which is counted and
\* paid again.)
C17_ReissueHasNoFurtherEffect ==
  (tally.pc = "counted" /\ tally.by = "fetchLikes" /\ tally.status = 200) =>
    /\ tally.out = LikeCounts(SigLists(Once(tally.txs), tally.regs))
    /\ Lamports(tally.txs) = Lamports(Once(tally.txs))

\* the scanned transactions that the owner account signed
OwnerSigned ==
  [i \in DOMAIN SigList |->
     i \in DOMAIN reg.scanned /\ reg.scanned[i] /\ SigList[i].signer = OWNER_PK]

\* C18: the answer of getActiveRegistries() is the one the scan gives over
\* the transactions the owner signed: a tag-matching manifest in a
\* transaction signed by another account changes nothing.  (Violated: the
\* scan never looks at who signed a transaction, nor at the memo's owner
\* field.)
C18_OnlyOwnerSignedManifests ==
  reg.loaded => reg.active = ActiveList(ScanLatest(SigList, OwnerSigned, 1, NoManifest))

\* C19: with an explicit registry configured, getActiveRegistries() answers
\* exactly that registry and makes no gateway call: it never selects an
\* endpoint, lists the owner's history or fetches a transaction, and what it
\* caches and returns is the configured registry alone.  (Violated:
\* registry.ts's getActiveRegistries scans whatever is configured and uses
\* the configured registry only when the scan finds nothing.)
C19_ExplicitRegistrySkipsScan ==
  cfg.PUBLISH_REGISTRY # "" =>
    /\ rs.pc \notin {"pick", "tx", "thrown"}
    /\ rs.pc = "ret" => rs.res = <<cfg.PUBLISH_REGISTRY>>
    /\ reg.loaded => reg.active = <<cfg.PUBLISH_REGISTRY>> /\ reg.scanned = <<>>

\* C20: whenever a try of withFailover that is not its last fails with an
\* HTTP 429, a 403, a 401 or a timeout, withFailover rotates to the next
\* endpoint and sleeps its delay plus a jitter below 300 ms before trying
\* again.  (Violated: a "401 Unauthorized" matches none of isRetryable's
\* tests and is thrown to the caller on the first try.)
C20_RefusalsRotateAndRetry ==
  [][(fo.pc = "work" /\ fo.i < FO_RETRIES /\ fo'.pc \in {"sleep", "thrown"}
        /\ fo'.err \in HttpRefusals \cup {ETimeout}) =>
       /\ fo'.pc = "sleep"
       /\ fo'.rpcIndex = rotateRpc(fo.rpcIndex)
       /\ fo'.wake - now \in fo.delay..(fo.delay + FO_JITTER - 1)]_vars

\* C21: a transaction that is not confirmed at the poller's first query is
\* queried again in a later cycle: a poller that ran out of cycles has
\* queried the signature's status at least twice.  (Violated: the tried-set
\* is never reset, so an endpoint that answered "not yet" is skipped on every
\* later attempt, and pickConn() keeps returning it from the cache.)
C21_PendingIsQueriedAgain ==
  cf.pc = "exhausted" => cf.queries >= 2

\* C22: confirmSignatureSmart always terminates.  A started poller ends
\* (confirmed, out of attempts, or thrown out of by pickConn); it never runs
\* a seventh attempt and never issues more than 6 status queries; and once a
\* status was reported confirmed it issues no further query.
C22_PollerTerminates ==
  /\ (cf.pc = "pick") ~> (cf.pc \in {"confirmed", "exhausted", "thrown"})
  /\ [](cf.pc = "pick" => cf.attempts <= CONFIRM_ATTEMPTS)
  /\ [](cf.queries <= CONFIRM_ATTEMPTS /\ cf.queries <= cf.attempts)
  /\ [][cf.pc = "confirmed" => cf'.pc # "pick" /\ cf'.queries <= cf.queries]_vars

\* a poller that returned on a confirmed status after an earlier query on
\* another endpoint
C22_Witness ==
  /\ cf.pc = "confirmed" /\ cf.variant = "registry"
  /\ cf.attempts >= 2 /\ cf.queries >= 2

\* C23: the cursor moves past every signature a page considered, events or
\* not: as long as every gateway call answers, no page considers a signature
\* an earlier page considered, and loadMore reports "No more" only for a
\* page that had no signature to consider.  (Violated: loadMore takes the cursor from the last decoded
\* event, so trailing non-events are read again, and a page of non-events
\* alone ends the paging.)
C23_CursorPassesNonEvents ==
  (disc.status = "ok" /\ disc.dropped = 0) =>
    /\ disc.considered \cap disc.earlier = {}
    /\ disc.noMore => disc.considered = {}

\* C24: every page the aggregator returns is sorted newest-first by slot,
\* holds no signature twice and has at most `limit` entries.  (Violated: the
\* older aggregator merges the registries' rows without looking for a
\* signature it already has.)
C24_PageSortedUniqueCapped ==
  legacy.status = 200 =>
    /\ \A i, j \in DOMAIN legacy.items : i < j => legacy.items[i].slot >= legacy.items[j].slot
    /\ \A i, j \in DOMAIN legacy.items : legacy.items[i].sig = legacy.items[j].sig => i = j
    /\ Len(legacy.items) <= legacy.limit

\* C25: within one page load, every gateway call that fetches transaction
\* bodies carries exactly one signature.  (Violated: buildPage hands
\* getParsedTransactions up to TX_BATCH = 10 signatures in one call.)
C25_OneSignaturePerBodyCall ==
  srv.pc = "bodies" => Len(BodyBatch(srv)) = 1

\* C26: a pickConn() entered while every endpoint is in cooldown throws the
\* no-endpoint error in that same step: it has probed nothing, no time has
\* passed, and the pool (every failScore and cooldownUntil) and the cached
\* current endpoint are as they were.
C26_AllCoolingFailsFast ==
  [][\A c \in Callers :
       (/\ race.calls[c].pc = "idle" /\ race'.calls[c].pc # "idle"
        /\ \A e \in DOMAIN pool : pool[e].cooldownUntil > now) =>
         /\ race'.calls[c].pc = "thrown"
         /\ race'.calls[c].failed = {} /\ ~race'.calls[c].probed
         /\ UNCHANGED <<now, pool, CACHED_URL>>]_vars

\* such a call, made while an endpoint is still cached
C26_Witness ==
  \E c \in Callers :
    /\ race.calls[c].pc = "thrown" /\ race.calls[c].failed = {}
    /\ race.calls[c].now0 = now
    /\ CACHED_URL # NoEp
    /\ Cardinality(DOMAIN pool) >= 2
    /\ \A e \in DOMAIN pool : pool[e].cooldownUntil > now /\ pool[e].failScore >= 1

\* C27: while the cached endpoint E is not in cooldown, a pickConn() call
\* returns E at once, without a probe and without touching the pool; and no
\* pickConn() call returns an endpoint that is in cooldown at the moment it
\* returns.  (Violated by overlapping calls: two calls probe E together, one
\* probe fails and puts E into cooldown, the other succeeds and returns E.)
C27_CachedUntilCooldown ==
  /\ [][\A c \in Callers :
          (/\ race.calls[c].pc = "idle" /\ race'.calls[c].pc # "idle"
           /\ CACHED_URL # NoEp /\ pool[CACHED_URL].cooldownUntil <= now) =>
            /\ race'.calls[c].pc = "ret" /\ race'.calls[c].res = CACHED_URL
            /\ ~race'.calls[c].probed
            /\ UNCHANGED <<now, pool, CACHED_URL>>]_vars
  /\ [][\A c \in Callers :
          (race.calls[c].pc # "ret" /\ race'.calls[c].pc = "ret") =>
            pool'[race'.calls[c].res].cooldownUntil <= now']_vars

\* C28: whenever pickConn() probes an endpoint, a failure of that probe
\* classified as auth/origin-denied would leave the endpoint with a strictly
\* later cooldownUntil than a rate-limited or a timed-out failure of the same
\* probe.  (Violated: the catch block charges every failure the same.)
C28_AuthPenalizedHarder ==
  pk.pc = "probing" =>
    LET ep == pk.order[pk.idx]
        After(res) == ProbeFailed(pool, ep, pk.now0, res)[ep].cooldownUntil
    IN \A res \in ProbeFailures \ {"auth"} : After("auth") > After(res)

\* C29: whatever the manifests on the ledger hold, the list
\* getActiveRegistries() caches and returns has no address twice and at most
\* MAX_REGISTRIES entries, which is at most 8.  (Violated: the addresses of
\* the manifest are pushed as they come; only publishRegistryManifest, the
\* writer, removes repetitions.)
C29_ActiveListUniqueCapped ==
  reg.loaded =>
    /\ \A i, j \in DOMAIN reg.active : reg.active[i] = reg.active[j] => i = j
    /\ Len(reg.active) <= MAX_REGISTRIES
    /\ MAX_REGISTRIES <= 8

\* C30: with sharding on and more than one registry a writer gets the
\* registry at index floor(now / 30 min) mod count, so that writers in the
\* same bucket get the same registry and writers in consecutive buckets get
\* consecutive registries of the list; with one registry or sharding off
\* every writer gets the first registry.
C30_BucketSelectsRegistry ==
  LET n == Len(sel.regs)
      called == {w \in 1..NumWriters : sel.out[w].at # 0}
      bucket(w) == sel.out[w].at \div (30 * 60000)
      index(w) == CHOOSE i \in 1..n : sel.regs[i] = sel.out[w].reg
  IN /\ \A w \in called : sel.out[w].reg \in {sel.regs[i] : i \in 1..n}
     /\ IF n = 1 \/ ~cfg.WRITE_SHARDING
        THEN \A w \in called : sel.out[w].reg = sel.regs[1]
        ELSE /\ \A w \in called : index(w) - 1 = bucket(w) % n
             /\ \A v, w \in called : bucket(v) = bucket(w) => sel.out[v].reg = sel.out[w].reg
             /\ \A v, w \in called :
                  bucket(w) = bucket(v) + 1 => index(w) - 1 = (index(v) - 1 + 1) % n

\* two writers in consecutive buckets, on a list of three registries
C30_Witness ==
  /\ cfg.WRITE_SHARDING /\ Len(sel.regs) = 3
  /\ sel.out[1].at # 0 /\ sel.out[2].at # 0
  /\ sel.out[2].at \div BUCKET_MS = sel.out[1].at \div BUCKET_MS + 1
  /\ sel.out[1].reg # sel.out[2].reg

\* C31: every like publishLike lands splits its amount: the fee is
\* max(1, floor(amount * feeBps / 10000)), the creator's part is amount - fee,
\* which is never negative, and the two add up to the amount the memo
\* records, whatever feeBps is configured (a creator's part of 0 is a
\* transaction without the creator transfer).  (Violated: with more than
\* 10000 bps the fee alone is more than the amount.)
C31_SplitAddsUpToAmount ==
  \A i \in DOMAIN tally.txs :
    IsLike(tally.txs[i].memo) =>
      LET amt == Get(safeJson(tally.txs[i].memo), "amt").n
          bps == IF cfg.LIKE_FEE_BPS > 0 THEN cfg.LIKE_FEE_BPS ELSE 1000
          fee == IF (amt * bps) \div 10000 < 1 THEN 1 ELSE (amt * bps) \div 10000
      IN /\ amt >= 1
         /\ tally.txs[i].fee = fee
         /\ tally.txs[i].tip = amt - fee
         /\ tally.txs[i].tip >= 0
         /\ tally.txs[i].fee + tally.txs[i].tip = amt

\* C32: when the data of a memo instruction is the base64 text of an event
\* a decoder accepts, and not itself such a text, the decoder falls back to
\* the base64 decoding and hands over the event, as it does when the data is
\* the event's text.  (Violated: the first decoding never fails, so the
\* base64 text itself goes to JSON.parse.)
C32_Base64FallbackSurfaces ==
  (codec.pc = "extracted" /\ Decode(codec.decoder, codec.memo) # Null)
  => codec.out = Decode(codec.decoder, codec.memo)

C34_RetryOnAnotherEndpoint ==
  [][\A c \in 1..NumFoCallers :
       (fo.ov[c].pc = "sleep" /\ fo'.ov[c].pc = "work")
       => fo'.ov[c].on # fo.ov[c].failedOn]_vars

\* C35: once a 429 has set the pause, no try of any withFailover call, the
\* retry of the call that saw the 429 included, starts before pauseUntil.
\* (Violated: only the entry of withFailover looks at pauseUntil; the retry
\* starts after its own sleep of at most 6.3 seconds.)
C35_NoTryDuringPause ==
  [][(fo.pc # "work" /\ fo'.pc = "work") => now' >= fo'.pauseUntil]_vars

\* C36: a caller that starts without a cursor and sends back the cursor of
\* each page until a page comes back empty has been shown every Publish
\* event of the registry's history that has a block time, each of them once.  (Violated: the feed
\* endpoint reads the newest signatures again on every call and cuts them at
\* the block time of the cursor transaction.)
C36_WalkShowsEveryEventOnce ==
  ( /\ legacy.status = 200 /\ legacy.items = <<>> /\ legacy.shown # <<>>
    /\ legacy.faults = 0 /\ fenv.appends = 0 )
  => \A i \in DOMAIN ledger :
       (IsMeme(MemoText(ledger[i].memo)) /\ ledger[i].blockTime > 0)
       => Cardinality({k \in DOMAIN legacy.shown : legacy.shown[k] = ledger[i].sig}) = 1

\* C37: the like-count endpoint counts each like transaction once for its
\* content id, also when the transaction is in the history of more than one
\* of the registries it reads.  (Violated: the histories are counted list
\* after list, and a like pays its fee to the owner account.)
C37_EachLikeCountedOnce ==
  (tally.pc = "counted" /\ tally.by = "fetchLikes" /\ tally.status = 200)
  => \A id \in ContentIds :
       LikesFor(tally.txs, id) # {}
       => /\ id \in DOMAIN tally.out
          /\ tally.out[id] = Num(Cardinality(LikesFor(tally.txs, id)))

\* C38: one publishLike for content id X that succeeds, started from a like
\* or superlike button of a card, raises the like count held for X by
\* exactly 1.  (Violated: the click listener bumps the count and so does the
\* listener of the event publishLike sends.)
C38_OneLikeBumpsOnce ==
  [][\A id \in {"X", "Y"} :
       (disc'.liked = Append(disc.liked, id))
       => CountOf(disc'.likesMap, id) = CountOf(disc.likesMap, id) + 1]_vars

\* C39: over the runs of the feed builder, every transaction of the registry
\* newer than the cursor first stored that the cursor has since moved past
\* was processed by some run, however many transactions landed between two
\* runs.  (Violated: a run reads the
\* newest 500 signatures at most and then stores the newest as its cursor.)
C39_CursorPassesOnlyProcessed ==
  \A sig \in (tally.index.base + 1)..tally.index.cursor :
    \E k \in DOMAIN tally.index.done :
      tally.index.done[k][1] <= sig /\ sig <= tally.index.done[k][2]

====
